---- MODULE Spec2Model ----
(***************************************************************************)
(* Verse tokenizer, commentary resolver, multi-source word annotator       *)
(* (verses-display.tsx) and the corpus ordering of the structured          *)
(* document extractor (the meanings.md -> meanings.json script).           *)
(*                                                                         *)
(* Strings are sequences of UTF-16 code units.  A code unit is written as  *)
(* a TLA+ string: ASCII characters stand for themselves, the other code    *)
(* units carry a name of more than one character:                          *)
(*   "danda"  U+0964   "ddanda" U+0965   "avagraha" U+093D                  *)
(*   "letter_a" U+0905   "letter_e" U+090F   "letter_o" U+0913              *)
(*   "om" U+0950       "anusvara" U+0902  "visarga" U+0903                  *)
(*   "virama" U+094D   "d0".."d9" U+0966..U+096F (Devanagari digits)        *)
(*   "ka", "ga", "sa", ...  the letters KA, GA, SA, ...                     *)
(*   "sign_aa", "sign_i", "sign_ii", "sign_u", "sign_e"  the vowel signs    *)
(* The alphabet holds no "$", so the replacement string of String.replace  *)
(* is always literal, and no key is an integer index or a member of        *)
(* Object.prototype.                                                       *)
(***************************************************************************)
EXTENDS Integers, Sequences, FiniteSets, TLC

VARIABLES
    pc,                 \* position of the modelled run
    line,               \* parseWordsFromLine: the argument
    processedLine,      \* parseWordsFromLine: line after the bracket pre-pass
    breakdowns,         \* parseWordsFromLine: Map word -> components
    result,             \* parseWordsFromLine: the returned segments
    reprocessedLine,    \* the pre-pass applied to processedLine: its cleaned line
    rebreakdowns,       \* the pre-pass applied to processedLine: its map
    name,               \* findCommentary: the word looked up
    commentarySource,   \* findCommentary: the source, pairs in insertion order
    found,              \* findCommentary: the returned value
    sanskritText,       \* VersesDisplay: the lines of the document
    commentaries,       \* VersesDisplay: the sources, pairs in insertion order
    wordToCommentaryMap,\* VersesDisplay: the annotations, in insertion order
    prevCommentaries,   \* the sources of the previous render
    prevMap,            \* the annotations of the previous render
    regularLines,       \* VersesDisplay: the lines rendered in the verse list
    concludingLine,     \* VersesDisplay: the line rendered as the colophon
    verseList,          \* VersesDisplay: the elements rendered for regularLines
    blocks,             \* extractor main: the blocks (SpecExtractor: their numbers)
    ordered,            \* extractor main: the output array
    nameBlock,          \* parseNameBlock: its blockLines
    nameEntry,          \* parseNameBlock: << >>, then the returned entry in a tuple
    raw,                \* extractor main: the text of meanings.md
    openWordId,         \* VersesDisplay: the id of the open word, << >> for null
    shouldScroll,       \* VersesDisplay: the scroll flag
    scrolledTo,         \* the id scrollIntoView was called for in the last commit
    event,              \* the last event of the popovers
    nextRun,            \* the ids open before and after the last run of next events
    started,            \* pipeline: the scripts started with execSync, in order
    statuses,           \* pipeline: the exit statuses of the scripts that have exited
    log,                \* pipeline: the messages written to the console
    exitCode,           \* pipeline: the exit status of the pipeline, << >> while it runs
    nameList,           \* convert-to-names.js: the names of sanskrit.txt
    commentariesByFile, \* convert-to-names.js: the commentary files read
    meaningsMd,         \* the text of meanings.md
    meaningsJson,       \* the array of meanings.json
    commentariesJson,   \* the object of commentaries.json
    pendingCommentaries,\* split-meanings-json.js: commentaries, between its two writes
    report              \* find-missing-commentaries.js: missingCommentaries

vars == << pc, line, processedLine, breakdowns, result, reprocessedLine,
           rebreakdowns, name, commentarySource, found, sanskritText,
           commentaries, wordToCommentaryMap, prevCommentaries, prevMap,
           regularLines, concludingLine, verseList, blocks, ordered, nameBlock, nameEntry,
           raw,
           openWordId, shouldScroll, scrolledTo, event, nextRun,
           started, statuses, log, exitCode,
           nameList, commentariesByFile, meaningsMd, meaningsJson, commentariesJson,
           pendingCommentaries, report >>

tokVars == << line, processedLine, breakdowns, result, reprocessedLine, rebreakdowns >>
resVars == << name, commentarySource, found >>
annVars == << sanskritText, commentaries, wordToCommentaryMap, prevCommentaries, prevMap,
             regularLines, concludingLine, verseList >>
extVars == << blocks, ordered, nameBlock, nameEntry >>
corpusVars == << raw >>
popVars == << openWordId, shouldScroll, scrolledTo, event, nextRun >>
pipeVars == << started, statuses, log, exitCode >>
scriptVars == << nameList, commentariesByFile, meaningsMd, meaningsJson, commentariesJson,
                pendingCommentaries, report >>

-----------------------------------------------------------------------------
(* Code units and character classes *)

DANDA == "danda"
DDANDA == "ddanda"
AVAGRAHA == "avagraha"
VOWEL_A == "letter_a"

\* JavaScript \s and String.prototype.trim: tab, line feed, vertical tab, form
\* feed, carriage return, space, U+00A0, U+1680, U+2000..U+200A, U+2028,
\* U+2029, U+202F, U+205F, U+3000 and U+FEFF
WhiteSpace ==
    {"\t", "\n", "vtab", "\f", "\r", " ", "nbsp", "u1680",
     "u2000", "u2001", "u2002", "u2003", "u2004", "u2005", "u2006", "u2007", "u2008",
     "u2009", "u200a", "u2028", "u2029", "u202f", "u205f", "u3000", "ufeff"}

\* the line terminators, which the . of a pattern does not match
LineTerminators == {"\n", "\r", "u2028", "u2029"}

\* JavaScript \d
AsciiDigits == {"0", "1", "2", "3", "4", "5", "6", "7", "8", "9"}

\* the range U+0966..U+096F of the verse-number pattern
DevanagariDigits == {"d0", "d1", "d2", "d3", "d4", "d5", "d6", "d7", "d8", "d9"}

\* null / undefined: a value that is no string (no code unit is "null")
Null == << "null" >>

-----------------------------------------------------------------------------
(* String helpers *)

\* first index >= p whose code unit is outside C (Len(s)+1 when none)
SkipIn(s, p, C) ==
    CHOOSE i \in p..(Len(s) + 1) :
        /\ \A j \in p..(i - 1) : s[j] \in C
        /\ (i = Len(s) + 1 \/ s[i] \notin C)

\* first index >= p whose code unit is in C (Len(s)+1 when none)
SkipNotIn(s, p, C) ==
    CHOOSE i \in p..(Len(s) + 1) :
        /\ \A j \in p..(i - 1) : s[j] \notin C
        /\ (i = Len(s) + 1 \/ s[i] \in C)

\* last index whose code unit is outside C (0 when none)
LastNotIn(s, C) ==
    CHOOSE i \in 0..Len(s) :
        /\ \A j \in (i + 1)..Len(s) : s[j] \in C
        /\ (i = 0 \/ s[i] \notin C)

\* String.prototype.trim
Trim(s) == SubSeq(s, SkipIn(s, 1, WhiteSpace), LastNotIn(s, WhiteSpace))

RECURSIVE Flatten(_)
Flatten(ss) == IF ss = << >> THEN << >> ELSE Head(ss) \o Flatten(Tail(ss))

\* first index at which pat occurs in s (0 when it does not occur)
IndexOf(s, pat) ==
    LET hits == { i \in 1..(Len(s) - Len(pat) + 1) : SubSeq(s, i, i + Len(pat) - 1) = pat }
    IN IF hits = {} THEN 0 ELSE CHOOSE i \in hits : \A j \in hits : i <= j

\* String.prototype.replace(pat, rep) with a string pattern: the first occurrence
ReplaceFirst(s, pat, rep) ==
    LET i == IndexOf(s, pat)
    IN IF i = 0 THEN s
       ELSE SubSeq(s, 1, i - 1) \o rep \o SubSeq(s, i + Len(pat), Len(s))

\* String.prototype.split(c) on a single code unit
RECURSIVE SplitOn(_, _)
SplitOn(s, c) ==
    LET i == SkipNotIn(s, 1, {c})
    IN IF i > Len(s) THEN << s >>
       ELSE << SubSeq(s, 1, i - 1) >> \o SplitOn(SubSeq(s, i + 1, Len(s)), c)

-----------------------------------------------------------------------------
(* parseWordsFromLine: the bracket-breakdown pre-pass *)

NoMatch == [end |-> 0, fullMatch |-> << >>, wordBeforeBrackets |-> << >>, componentsStr |-> << >>]

\* One attempt of breakdownPattern /(\S+)\s+\[([^\]]+)\](?:\s*\(\d+\))?/ at
\* index p.  Each quantified class is followed by a code unit outside the
\* class, so the greedy match is the only one.
MatchBreakdownAt(s, p) ==
    LET i1 == SkipNotIn(s, p, WhiteSpace)          \* end of (\S+)
        i2 == SkipIn(s, i1, WhiteSpace)            \* end of \s+
        i3 == SkipNotIn(s, i2 + 1, {"]"})          \* end of ([^\]]+)
        j  == SkipIn(s, i3 + 1, WhiteSpace)        \* \s* of the number group
        k  == SkipIn(s, j + 1, AsciiDigits)        \* \d+ of the number group
        hasNumber == /\ j <= Len(s) /\ s[j] = "("
                     /\ k > j + 1
                     /\ k <= Len(s) /\ s[k] = ")"
    IN IF /\ i1 > p
          /\ i2 > i1
          /\ i2 <= Len(s) /\ s[i2] = "["
          /\ i3 > i2 + 1
          /\ i3 <= Len(s)
       THEN [end |-> IF hasNumber THEN k ELSE i3,
             fullMatch |-> SubSeq(s, p, IF hasNumber THEN k ELSE i3),
             wordBeforeBrackets |-> SubSeq(s, p, i1 - 1),
             componentsStr |-> SubSeq(s, i2 + 1, i3 - 1)]
       ELSE NoMatch

\* Array.from(line.matchAll(breakdownPattern)): leftmost matches, each search
\* starting where the previous match ended
RECURSIVE MatchAllFrom(_, _)
MatchAllFrom(s, p) ==
    IF p > Len(s) THEN << >>
    ELSE LET m == MatchBreakdownAt(s, p)
         IN IF m.end = 0 THEN MatchAllFrom(s, p + 1)
            ELSE << m >> \o MatchAllFrom(s, m.end + 1)

\* wordBeforeBrackets.replace(/[danda ddanda]*$/, '')
StripTrailingDandas(w) == SubSeq(w, 1, LastNotIn(w, {DANDA, DDANDA}))

\* componentsStr.split(/\s*\+\s*/).map(c => c.trim()).filter(Boolean): the
\* white space around a "+" is trimmed either by the separator or by trim()
SplitComponents(componentsStr) ==
    LET pieces == SplitOn(componentsStr, "+")
        trimmed == [i \in 1..Len(pieces) |-> Trim(pieces[i])]
    IN SelectSeq(trimmed, LAMBDA c : c # << >>)

\* Map.prototype.set that keeps the value of a key already present
MapSetKeepFirst(map, key, value) ==
    [k \in (DOMAIN map) \cup {key} |-> IF k \in DOMAIN map THEN map[k] ELSE value]

\* Map.prototype.set
MapSet(map, key, value) ==
    [k \in (DOMAIN map) \cup {key} |-> IF k = key THEN value ELSE map[k]]

\* the body of the loop over the matches
RECURSIVE ApplyMatches(_, _, _)
ApplyMatches(matches, cleaned, map) ==
    IF matches = << >> THEN [processedLine |-> cleaned, breakdowns |-> map]
    ELSE LET m == Head(matches)
             word == StripTrailingDandas(m.wordBeforeBrackets)
             map2 == IF word # << >>
                     THEN MapSet(map, word, SplitComponents(m.componentsStr))
                     ELSE map
         IN ApplyMatches(Tail(matches),
                         ReplaceFirst(cleaned, m.fullMatch, m.wordBeforeBrackets),
                         map2)

\* lines 34-56: the cleaned line and the breakdown map
ExtractBreakdowns(l) == ApplyMatches(MatchAllFrom(l, 1), l, << >>)

-----------------------------------------------------------------------------
(* parseWordsFromLine: the tokenizer *)

\* One attempt of the verse-number pattern at index p: the index of the
\* closing double danda, 0 when there is no match at p
MatchVerseNumberAt(s, p) ==
    LET a == SkipIn(s, p + 1, WhiteSpace)
        b == SkipIn(s, a, DevanagariDigits \cup AsciiDigits)
        c == SkipIn(s, b, WhiteSpace)
    IN IF /\ p <= Len(s) /\ s[p] = DDANDA
          /\ b > a
          /\ c <= Len(s) /\ s[c] = DDANDA
       THEN c ELSE 0

\* processedLine.split(/(verse number)/): the text from p up to each match,
\* then the match (the capture group), then the rest
RECURSIVE SplitVerseNumbers(_, _, _)
SplitVerseNumbers(s, p, q) ==
    IF q > Len(s) THEN << SubSeq(s, p, Len(s)) >>
    ELSE LET e == MatchVerseNumberAt(s, q)
         IN IF e = 0 THEN SplitVerseNumbers(s, p, q + 1)
            ELSE << SubSeq(s, p, q - 1), SubSeq(s, q, e) >>
                 \o SplitVerseNumbers(s, e + 1, e + 1)

\* /verse number/.test(part)
HasVerseNumber(part) == \E q \in 1..Len(part) : MatchVerseNumberAt(part, q) # 0

\* part.split(/\s+/).filter(w => w && w.trim()): the maximal runs without
\* white space
RECURSIVE SplitWords(_, _)
SplitWords(s, p) ==
    LET a == SkipIn(s, p, WhiteSpace)
        b == SkipNotIn(s, a, WhiteSpace)
    IN IF a > Len(s) THEN << >>
       ELSE << SubSeq(s, a, b - 1) >> \o SplitWords(s, b)

\* word.match(/^(.+?)([danda]*)$/): the length of group 1, the shortest
\* non-empty prefix that leaves only single dandas
MainWordLength(word) ==
    CHOOSE n \in 1..Len(word) :
        /\ \A j \in (n + 1)..Len(word) : word[j] = DANDA
        /\ (n = 1 \/ word[n] # DANDA)

\* a segment of the result; breakdownComponents is << >> when the property
\* is absent and << components >> when it is set
Segment(word, isWord, breakdownComponents) ==
    [word |-> word, isWord |-> isWord, breakdownComponents |-> breakdownComponents]

\* WordSegments without the push of the punctuation segment
WordSegmentsWithoutPunctuation(word, map) ==
    LET mainWord == SubSeq(word, 1, MainWordLength(word))
    IN << Segment(mainWord, TRUE,
                  IF mainWord \in DOMAIN map THEN << map[mainWord] >> ELSE << >>) >>

\* lines 79-97: the segments of one white-space delimited unit
WordSegments(word, map) ==
    LET n == MainWordLength(word)
        mainWord == SubSeq(word, 1, n)
        punctuation == SubSeq(word, n + 1, Len(word))
    IN << Segment(mainWord, TRUE,
                  IF mainWord \in DOMAIN map THEN << map[mainWord] >> ELSE << >>) >>
       \o (IF punctuation # << >> THEN << Segment(punctuation, FALSE, << >>) >> ELSE << >>)

\* lines 74-103: the loop over the units of a part, from unit j on
RECURSIVE UnitsSegments(_, _, _)
UnitsSegments(words, j, map) ==
    IF j > Len(words) THEN << >>
    ELSE WordSegments(words[j], map)
         \o (IF j < Len(words) THEN << Segment(<< " " >>, FALSE, << >>) >> ELSE << >>)
         \o UnitsSegments(words, j + 1, map)

\* lines 62-103: the segments of one part of the split
PartSegments(part, map) ==
    IF Trim(part) = << >> THEN << >>
    ELSE IF HasVerseNumber(part) THEN << Segment(part, FALSE, << >>) >>
    ELSE UnitsSegments(SplitWords(part, 1), 1, map)

RECURSIVE PartsSegments(_, _)
PartsSegments(parts, map) ==
    IF parts = << >> THEN << >>
    ELSE PartSegments(Head(parts), map) \o PartsSegments(Tail(parts), map)

parseWordsFromLine(l) ==
    LET pre == ExtractBreakdowns(l)
    IN PartsSegments(SplitVerseNumbers(pre.processedLine, 1, 1), pre.breakdowns)

-----------------------------------------------------------------------------
(* findCommentary *)

\* the words U+0950 and U+0913 U+0902
OmSign == << "om" >>
OmSyllable == << "letter_o", "anusvara" >>

\* "The primordial Sound"
OmGloss == << "T", "h", "e", " ", "p", "r", "i", "m", "o", "r", "d", "i", "a", "l",
              " ", "S", "o", "u", "n", "d" >>

\* commentarySource[key]: a source is a sequence of [key, text] pairs with
\* distinct keys, in insertion order; Null stands for undefined
Lookup(source, key) ==
    IF \E i \in 1..Len(source) : source[i].key = key
    THEN source[CHOOSE i \in 1..Len(source) : source[i].key = key].text
    ELSE Null

\* JavaScript truthiness of a string | undefined | null
Truthy(v) == v # Null /\ v # << >>

\* name.replace(/avagraha/g, VOWEL_A): U+093D becomes U+0905
ReplaceAvagraha(s) == [i \in 1..Len(s) |-> IF s[i] = AVAGRAHA THEN VOWEL_A ELSE s[i]]

\* name.replace(/-/g, "")
RemoveDashes(s) == SelectSeq(s, LAMBDA c : c # "-")

\* AvagrahaSplit with the two commentaries joined right to left
AvagrahaSplitRightToLeft(n, source) ==
    LET parts == SplitOn(n, AVAGRAHA)
        part1 == parts[1]
        part2 == parts[2]
        commentary1 == Lookup(source, part1)
        commentary2 == Lookup(source, part2)
    IN IF Len(parts) = 2 /\ part1 # << >> /\ part2 # << >>
       THEN IF Truthy(commentary1) /\ Truthy(commentary2)
                 THEN commentary2 \o << " " >> \o commentary1
            ELSE IF Truthy(commentary1) THEN commentary1
            ELSE IF Truthy(commentary2) THEN commentary2
            ELSE Null
       ELSE Null

\* lines 133-158: the split on the avagraha; Null when the block returns nothing
AvagrahaSplit(n, source) ==
    LET parts == SplitOn(n, AVAGRAHA)
        part1 == parts[1]
        part2 == parts[2]
        commentary1 == Lookup(source, part1)
        commentary2 == Lookup(source, part2)
        commentary1WithA == Lookup(source, part1 \o << VOWEL_A >>)
    IN IF Len(parts) = 2 /\ part1 # << >> /\ part2 # << >>
       THEN IF Truthy(commentary1) /\ Truthy(commentary2)
                 THEN commentary1 \o << " " >> \o commentary2
            ELSE IF Truthy(commentary1) THEN commentary1
            ELSE IF Truthy(commentary2) THEN commentary2
            ELSE IF Truthy(commentary1WithA) /\ Truthy(commentary2)
                 THEN commentary1WithA \o << " " >> \o commentary2
            ELSE Null
       ELSE Null

\* lines 126-159: the avagraha block; Null when it returns nothing
AvagrahaStep(n, source) ==
    IF \E i \in 1..Len(n) : n[i] = AVAGRAHA
    THEN IF Truthy(Lookup(source, ReplaceAvagraha(n)))
         THEN Lookup(source, ReplaceAvagraha(n))
         ELSE AvagrahaSplit(n, source)
    ELSE Null

\* DashScan that keeps the last matching key instead of the first
DashScanLastMatch(n, source) ==
    LET hits == { i \in 1..Len(source) : RemoveDashes(source[i].key) = RemoveDashes(n) }
    IN IF hits = {} THEN Null
       ELSE source[CHOOSE i \in hits : \A j \in hits : i >= j].text

\* lines 167-175: the scan of the keys in insertion order
DashScan(n, source) ==
    LET hits == { i \in 1..Len(source) : RemoveDashes(source[i].key) = RemoveDashes(n) }
    IN IF hits = {} THEN Null
       ELSE source[CHOOSE i \in hits : \A j \in hits : i <= j].text

\* lines 161-175: the lookups without dashes
DashStep(n, source) ==
    IF Truthy(Lookup(source, RemoveDashes(n)))
    THEN Lookup(source, RemoveDashes(n))
    ELSE DashScan(n, source)

\* findCommentary with the exact lookup before the special case
findCommentaryLookupFirst(n, source) ==
    IF Truthy(Lookup(source, n)) THEN Lookup(source, n)
    ELSE IF n = OmSign \/ n = OmSyllable THEN OmGloss
    ELSE IF AvagrahaStep(n, source) # Null THEN AvagrahaStep(n, source)
    ELSE DashStep(n, source)

findCommentary(n, source) ==
    IF n = OmSign \/ n = OmSyllable THEN OmGloss
    ELSE IF Truthy(Lookup(source, n)) THEN Lookup(source, n)
    ELSE IF AvagrahaStep(n, source) # Null THEN AvagrahaStep(n, source)
    ELSE DashStep(n, source)

-----------------------------------------------------------------------------
(* VersesDisplay: the word annotations *)

\* the words of concludingLinePattern, which are joined by \s+
ConcludingWords ==
    << << "letter_e", "va", "anusvara" >>,
       << "sha", "virama", "ra", "sign_ii", "la", "la", "sign_i", "ta", "sign_aa" >>,
       << "da", "sign_e", "va", "virama", "ya", "sign_aa" >>,
       << "na", "sign_aa", "ma", "virama", "na", "sign_aa", "anusvara" >>,
       << "sa", "sign_aa", "ha", "sa", "virama", "ra", "ka", "anusvara" >>,
       << "ja", "ga", "sign_u", "visarga" >> >>

\* the words from number w on match at index p, with \s+ before each but the first
RECURSIVE MatchConcludingFrom(_, _, _)
MatchConcludingFrom(s, p, w) ==
    IF w > Len(ConcludingWords) THEN TRUE
    ELSE LET q == IF w = 1 THEN p ELSE SkipIn(s, p, WhiteSpace)
             word == ConcludingWords[w]
         IN /\ (w = 1 \/ q > p)
            /\ q + Len(word) - 1 <= Len(s)
            /\ SubSeq(s, q, q + Len(word) - 1) = word
            /\ MatchConcludingFrom(s, q + Len(word), w + 1)

\* concludingLinePattern.test(line)
IsConcludingLine(l) == \E p \in 1..Len(l) : MatchConcludingFrom(l, p, 1)

\* RegularCommentaries that leaves the loop at the first source that misses
RECURSIVE RegularCommentariesUntilMiss(_, _)
RegularCommentariesUntilMiss(word, sources) ==
    IF sources = << >> THEN << >>
    ELSE LET commentary == findCommentary(word, Head(sources).source)
         IN IF Truthy(commentary)
            THEN << [source |-> Head(sources).name, text |-> commentary] >>
                 \o RegularCommentariesUntilMiss(word, Tail(sources))
            ELSE << >>

\* Object.entries(commentaries): the sources are [name, source] pairs in
\* insertion order.  lines 386-392: the regular lookup in every source
RECURSIVE RegularCommentaries(_, _)
RegularCommentaries(word, sources) ==
    IF sources = << >> THEN << >>
    ELSE LET commentary == findCommentary(word, Head(sources).source)
         IN (IF Truthy(commentary)
             THEN << [source |-> Head(sources).name, text |-> commentary] >>
             ELSE << >>)
            \o RegularCommentaries(word, Tail(sources))

\* ComponentEntries that gives the word up when a component does not resolve
RECURSIVE ComponentEntriesAllOrNothing(_, _)
ComponentEntriesAllOrNothing(components, source) ==
    IF components = << >> THEN << >>
    ELSE LET compCommentary == findCommentary(Head(components), source)
             rest == ComponentEntriesAllOrNothing(Tail(components), source)
         IN IF Truthy(compCommentary) /\ (Tail(components) = << >> \/ rest # << >>)
            THEN << [sanskrit |-> Head(components), meaning |-> compCommentary] >> \o rest
            ELSE << >>

\* lines 356-365: the entries of the components that resolve in one source
RECURSIVE ComponentEntries(_, _)
ComponentEntries(components, source) ==
    IF components = << >> THEN << >>
    ELSE LET compCommentary == findCommentary(Head(components), source)
         IN (IF Truthy(compCommentary)
             THEN << [sanskrit |-> Head(components), meaning |-> compCommentary] >>
             ELSE << >>)
            \o ComponentEntries(Tail(components), source)

\* lines 369-371: entries.map(e => `${e.sanskrit}\n${e.meaning}`).join('\n\n')
RECURSIVE CombinedCommentary(_)
CombinedCommentary(entries) ==
    IF entries = << >> THEN << >>
    ELSE Head(entries).sanskrit \o << "\n" >> \o Head(entries).meaning
         \o (IF Len(entries) > 1 THEN << "\n", "\n" >> ELSE << >>)
         \o CombinedCommentary(Tail(entries))

\* lines 355-375: the combined text of every source
RECURSIVE BreakdownCommentaries(_, _)
BreakdownCommentaries(components, sources) ==
    IF sources = << >> THEN << >>
    ELSE LET componentEntries == ComponentEntries(components, Head(sources).source)
         IN (IF Len(componentEntries) > 0
             THEN << [source |-> Head(sources).name,
                      text |-> CombinedCommentary(componentEntries)] >>
             ELSE << >>)
            \o BreakdownCommentaries(components, Tail(sources))

\* item.breakdownComponents && item.breakdownComponents.length > 0
HasBreakdown(item) ==
    item.breakdownComponents # << >> /\ Len(item.breakdownComponents[1]) > 0

\* WordAnnotation without the hasAnyCommentary guard
WordAnnotationUnguarded(item, lineIndex, wordIndex, sources) ==
    LET commentariesBySource ==
            IF HasBreakdown(item)
            THEN BreakdownCommentaries(item.breakdownComponents[1], sources)
            ELSE RegularCommentaries(item.word, sources)
    IN IF item.isWord
       THEN << [id |-> << lineIndex, wordIndex >>,
                word |-> item.word,
                commentariesBySource |-> commentariesBySource,
                breakdownComponents |->
                    IF HasBreakdown(item) THEN item.breakdownComponents ELSE << >>] >>
       ELSE << >>

\* lines 345-401: the map entries set for one segment (none or one); the id
\* `word-${lineIndex}-${wordIndex}` is the pair of the two indices
WordAnnotation(item, lineIndex, wordIndex, sources) ==
    LET commentariesBySource ==
            IF HasBreakdown(item)
            THEN BreakdownCommentaries(item.breakdownComponents[1], sources)
            ELSE RegularCommentaries(item.word, sources)
        hasAnyCommentary == commentariesBySource # << >>
    IN IF item.isWord /\ hasAnyCommentary
       THEN << [id |-> << lineIndex, wordIndex >>,
                word |-> item.word,
                commentariesBySource |-> commentariesBySource,
                breakdownComponents |->
                    IF HasBreakdown(item) THEN item.breakdownComponents ELSE << >>] >>
       ELSE << >>

\* LineAnnotations with wordIndex counting the Word segments only
LineAnnotationsCountingWords(l, lineIndex, sources) ==
    IF Trim(l) = << >> \/ IsConcludingLine(l) THEN << >>
    ELSE LET parsed == parseWordsFromLine(l)
         IN Flatten([j \in 1..Len(parsed) |->
                        WordAnnotation(parsed[j], lineIndex,
                            Cardinality({ k \in 1..(j - 1) : parsed[k].isWord }), sources)])

\* lines 339-403: the entries of one line
LineAnnotations(l, lineIndex, sources) ==
    IF Trim(l) = << >> \/ IsConcludingLine(l) THEN << >>
    ELSE LET parsed == parseWordsFromLine(l)
         IN Flatten([j \in 1..Len(parsed) |->
                        WordAnnotation(parsed[j], lineIndex, j - 1, sources)])

\* lines 333-403: wordToCommentaryMap, in insertion order
BuildWordToCommentaryMap(lines, sources) ==
    Flatten([i \in 1..Len(lines) |-> LineAnnotations(lines[i], i - 1, sources)])

\* lines 448-458: the lines that go to the verse list, in document order
RegularLines(lines) == SelectSeq(lines, LAMBDA l : ~IsConcludingLine(l))

\* lines 448-458: concludingLine, assigned at every matching line, so the
\* last one stays; Null when no line matches
LastConcludingLine(lines) ==
    LET hits == { i \in 1..Len(lines) : IsConcludingLine(lines[i]) }
    IN IF hits = {} THEN Null
       ELSE lines[CHOOSE i \in hits : \A j \in hits : j <= i]

\* wordToCommentaryMap.get(wordId): the entry in a tuple, << >> for undefined
MapGetEntry(map, wordId) == SelectSeq(map, LAMBDA e : e.id = wordId)

\* lines 477-503: the element of one segment of a rendered line, a
\* WordPopover with the props of the entry of the map or a span of the
\* segment's text
RenderedItem(item, lineIndex, wordIndex, map) ==
    IF item.isWord /\ MapGetEntry(map, << lineIndex, wordIndex >>) # << >>
    THEN [popover |-> TRUE,
          word |-> MapGetEntry(map, << lineIndex, wordIndex >>)[1].word,
          wordId |-> << lineIndex, wordIndex >>,
          commentariesBySource |->
              MapGetEntry(map, << lineIndex, wordIndex >>)[1].commentariesBySource]
    ELSE [popover |-> FALSE, word |-> item.word, wordId |-> << >>,
          commentariesBySource |-> << >>]

\* lines 463-504: the children of the paragraph of one line of regularLines
RenderedLine(l, lineIndex, map) ==
    IF Trim(l) = << >> THEN << >>
    ELSE [j \in 1..Len(parseWordsFromLine(l)) |->
             RenderedItem(parseWordsFromLine(l)[j], lineIndex, j - 1, map)]

\* lines 463-506: regularLines.map
VerseList(rlines, map) == [i \in 1..Len(rlines) |-> RenderedLine(rlines[i], i - 1, map)]

-----------------------------------------------------------------------------
(* VersesDisplay: the popovers *)

\* useState<string | null>(null): no word is open
NoWordId == << >>

\* no event yet
NoEvent == [kind |-> "none", wordId |-> NoWordId, from |-> NoWordId]

\* lines 405-417: wordsWithCommentaries, the entries of the map in insertion
\* order
WordsWithCommentaries(map) == [i \in 1..Len(map) |-> [id |-> map[i].id, word |-> map[i].word]]

\* lines 419-421: wordsWithCommentaries.findIndex, -1 when no entry has the id
CurrentWordIndex(ws, wordId) ==
    IF \E i \in 1..Len(ws) : ws[i].id = wordId
    THEN (CHOOSE i \in 1..Len(ws) :
             ws[i].id = wordId /\ \A j \in 1..(i - 1) : ws[j].id # wordId) - 1
    ELSE -1

\* lines 426-428: nextIndex
NextIndex(ws, wordId) ==
    IF CurrentWordIndex(ws, wordId) >= 0
    THEN (CurrentWordIndex(ws, wordId) + 1) % Len(ws)
    ELSE 0

\* handleNextWord stepping backwards
handleNextWordBackwards ==
    IF Len(WordsWithCommentaries(wordToCommentaryMap)) = 0
    THEN UNCHANGED << openWordId, shouldScroll >>
    ELSE /\ shouldScroll' = TRUE
         /\ openWordId' =
              WordsWithCommentaries(wordToCommentaryMap)[
                  ((NextIndex(WordsWithCommentaries(wordToCommentaryMap), openWordId)
                      + Len(wordToCommentaryMap) - 2) % Len(wordToCommentaryMap)) + 1].id

\* lines 423-435: handleNextWord
handleNextWord ==
    IF Len(WordsWithCommentaries(wordToCommentaryMap)) = 0
    THEN UNCHANGED << openWordId, shouldScroll >>
    ELSE /\ shouldScroll' = TRUE
         /\ openWordId' =
              WordsWithCommentaries(wordToCommentaryMap)[
                  NextIndex(WordsWithCommentaries(wordToCommentaryMap), openWordId) + 1].id

\* handleWordOpenChange that enables scrolling whenever a word is opened
handleWordOpenChangeAlwaysScroll(wordId, open) ==
    /\ shouldScroll' = IF open THEN TRUE ELSE shouldScroll
    /\ openWordId' = IF open THEN wordId ELSE NoWordId

\* lines 437-446: handleWordOpenChange
handleWordOpenChange(wordId, open) ==
    /\ shouldScroll' = IF open /\ openWordId # NoWordId /\ openWordId # wordId THEN TRUE
                       ELSE IF open /\ openWordId = NoWordId THEN FALSE
                       ELSE shouldScroll
    /\ openWordId' = IF open THEN wordId ELSE NoWordId

\* lines 481-497: the ids of the WordPopover elements of the verse list
PopoverIds(list) ==
    UNION { { list[i][j].wordId : j \in 1..Len(list[i]) } : i \in 1..Len(list) } \ { NoWordId }

\* lines 234-242 and 494-495: the effect of the WordPopover elements after a
\* commit; the effect of an element runs when its isOpen or its shouldScroll
\* prop changed and calls scrollIntoView when both hold.  The id that is
\* scrolled to, NoWordId for none
ScrollEffect(list, wasOpen, wasScroll, isOpen, isScroll) ==
    IF /\ isOpen \in PopoverIds(list)
       /\ isScroll
       /\ ~(wasOpen = isOpen /\ wasScroll)
    THEN isOpen
    ELSE NoWordId

-----------------------------------------------------------------------------
(* pipeline.js *)

\* lines 11-28: the scripts, in the order of the list
Scripts ==
    << [name |-> "Convert Commentaries to JSON", script |-> "convert-commentaries-to-json.js"],
       [name |-> "Convert Sanskrit", script |-> "convert-sanskrit.js"],
       [name |-> "Convert to Names", script |-> "convert-to-names.js"],
       [name |-> "Parse Verses", script |-> "parse-verses.js"] >>

Message(text, script) == [text |-> text, script |-> script]

\* lines 31-39: the next turn of the loop, up to the call of execSync
RunScript(i, messages) ==
    /\ started' = Append(started, Scripts[i].script)
    /\ log' = Append(messages, Message("Running", Scripts[i].script))
    /\ exitCode' = << >>
    /\ pc' = "running"

\* lines 48-49: the loop is over
Completed(messages) ==
    /\ log' = Append(messages, Message("Pipeline completed successfully", ""))
    /\ exitCode' = << 0 >>
    /\ pc' = "exited"
    /\ UNCHANGED started

\* lines 40 and 30-49: execSync has returned
AfterSuccess(i) ==
    IF i < Len(Scripts)
    THEN RunScript(i + 1, Append(log, Message("completed successfully", Scripts[i].script)))
    ELSE Completed(Append(log, Message("completed successfully", Scripts[i].script)))

\* AfterFailure that reports the error and goes on with the loop
AfterFailureGoingOn(i) ==
    IF i < Len(Scripts)
    THEN RunScript(i + 1, Append(log, Message("Error", Scripts[i].script)))
    ELSE Completed(Append(log, Message("Error", Scripts[i].script)))

\* lines 41-45 and 50-52: execSync has thrown
AfterFailure(i) ==
    /\ log' = log \o << Message("Error", Scripts[i].script), Message("Pipeline failed", "") >>
    /\ exitCode' = << 1 >>
    /\ pc' = "exited"
    /\ UNCHANGED started

-----------------------------------------------------------------------------
(* the extractor's main: the order of the output array *)

\* nameNumber === null (a parsed number is never negative)
NoNumber == -1

\* a.nameNumber ?? 0
NumberOrZero(n) == IF n = NoNumber THEN 0 ELSE n

\* the comparator with its operands exchanged
CompareNamesDescending(a, b) == NumberOrZero(b.nameNumber) - NumberOrZero(a.nameNumber)

\* the comparator of names.sort
CompareNames(a, b) == NumberOrZero(a.nameNumber) - NumberOrZero(b.nameNumber)

\* one step of a stable sort: x goes behind every element that does not
\* compare greater than it
InsertName(sorted, x) ==
    LET k == CHOOSE i \in 0..Len(sorted) :
                 /\ \A j \in 1..i : CompareNames(sorted[j], x) <= 0
                 /\ (i = Len(sorted) \/ CompareNames(sorted[i + 1], x) > 0)
    IN SubSeq(sorted, 1, k) \o << x >> \o SubSeq(sorted, k + 1, Len(sorted))

\* Array.prototype.sort with the comparator (a stable sort since ES2019)
RECURSIVE SortNames(_)
SortNames(names) ==
    IF names = << >> THEN << >>
    ELSE InsertName(SortNames(SubSeq(names, 1, Len(names) - 1)), names[Len(names)])

-----------------------------------------------------------------------------
(* the regular expressions of the extractor *)

\* The nodes of a pattern: a class of code units (negated or not), the
\* assertions ^ and $, a sequence, an alternation, a quantifier (max = 0
\* stands for no upper limit) and a capture group.
Chr(cs) == [t |-> "chr", cs |-> cs, neg |-> FALSE]
NotChr(cs) == [t |-> "chr", cs |-> cs, neg |-> TRUE]
Bol == [t |-> "bol"]
Eol == [t |-> "eol"]
Cat(rs) == [t |-> "cat", rs |-> rs]
Alt(rs) == [t |-> "alt", rs |-> rs]
Rep(r, min, max, lazy) == [t |-> "rep", r |-> r, min |-> min, max |-> max, lazy |-> lazy]
Grp(n, r) == [t |-> "grp", n |-> n, r |-> r]

Lit(s) == Cat([i \in 1..Len(s) |-> Chr({s[i]})])
Star(r) == Rep(r, 0, 0, FALSE)
Plus(r) == Rep(r, 1, 0, FALSE)
Opt(r) == Rep(r, 0, 1, FALSE)
LazyStar(r) == Rep(r, 0, 0, TRUE)
LazyPlus(r) == Rep(r, 1, 0, TRUE)
Ws == Chr(WhiteSpace)              \* \s
Digit == Chr(AsciiDigits)          \* \d
AnyChr == NotChr(LineTerminators)   \* .

\* the case folding of the i flag and of toLowerCase, on the letters of the
\* alphabet
LowerOf ==
    ("A" :> "a") @@ ("B" :> "b") @@ ("C" :> "c") @@ ("D" :> "d") @@ ("E" :> "e") @@
    ("F" :> "f") @@ ("G" :> "g") @@ ("H" :> "h") @@ ("I" :> "i") @@ ("J" :> "j") @@
    ("K" :> "k") @@ ("L" :> "l") @@ ("M" :> "m") @@ ("N" :> "n") @@ ("O" :> "o") @@
    ("P" :> "p") @@ ("Q" :> "q") @@ ("R" :> "r") @@ ("S" :> "s") @@ ("T" :> "t") @@
    ("U" :> "u") @@ ("V" :> "v") @@ ("W" :> "w") @@ ("X" :> "x") @@ ("Y" :> "y") @@
    ("Z" :> "z") @@ ("A_macron" :> "a_macron")

FoldCase(c) == IF c \in DOMAIN LowerOf THEN LowerOf[c] ELSE c

\* String.prototype.toLowerCase
ToLowerCase(s) == [i \in 1..Len(s) |-> FoldCase(s[i])]

\* no group has taken part in the match
NoGroups == << << 0, 0 >>, << 0, 0 >>, << 0, 0 >> >>

ChrMatches(r, c, ci) ==
    LET member == IF ci THEN \E x \in r.cs : FoldCase(x) = FoldCase(c) ELSE c \in r.cs
    IN member # r.neg

\* Run(r, s, p, g, ci): the ways pattern r matches s from index p on, in the
\* order a backtracking matcher tries them; e is the index behind the match
\* and g the groups (first index, index behind).  ci is the i flag.
RECURSIVE Run(_, _, _, _, _)
RECURSIVE RunCat(_, _, _, _, _, _)
RECURSIVE RunCatOver(_, _, _, _, _, _)
RECURSIVE RunAlt(_, _, _, _, _, _)
RECURSIVE RunRep(_, _, _, _, _, _)
RECURSIVE RunRepOver(_, _, _, _, _, _)

Run(r, s, p, g, ci) ==
    CASE r.t = "chr" -> IF p <= Len(s) /\ ChrMatches(r, s[p], ci)
                        THEN << [e |-> p + 1, g |-> g] >> ELSE << >>
      [] r.t = "bol" -> IF p = 1 THEN << [e |-> p, g |-> g] >> ELSE << >>
      [] r.t = "eol" -> IF p = Len(s) + 1 THEN << [e |-> p, g |-> g] >> ELSE << >>
      [] r.t = "cat" -> RunCat(r.rs, 1, s, p, g, ci)
      [] r.t = "alt" -> RunAlt(r.rs, 1, s, p, g, ci)
      [] r.t = "rep" -> RunRep(r, 0, s, p, g, ci)
      [] r.t = "grp" -> LET xs == Run(r.r, s, p, g, ci)
                        IN [k \in 1..Len(xs) |->
                               [e |-> xs[k].e,
                                g |-> [xs[k].g EXCEPT ![r.n] = << p, xs[k].e >>]]]

RunCat(rs, i, s, p, g, ci) ==
    IF i > Len(rs) THEN << [e |-> p, g |-> g] >>
    ELSE RunCatOver(Run(rs[i], s, p, g, ci), 1, rs, i + 1, s, ci)

RunCatOver(xs, k, rs, i, s, ci) ==
    IF k > Len(xs) THEN << >>
    ELSE RunCat(rs, i, s, xs[k].e, xs[k].g, ci) \o RunCatOver(xs, k + 1, rs, i, s, ci)

RunAlt(rs, i, s, p, g, ci) ==
    IF i > Len(rs) THEN << >>
    ELSE Run(rs[i], s, p, g, ci) \o RunAlt(rs, i + 1, s, p, g, ci)

RunRep(r, count, s, p, g, ci) ==
    LET stop == IF count >= r.min THEN << [e |-> p, g |-> g] >> ELSE << >>
        more == IF r.max = 0 \/ count < r.max
                THEN RunRepOver(SelectSeq(Run(r.r, s, p, g, ci), LAMBDA x : x.e > p),
                                1, r, count + 1, s, ci)
                ELSE << >>
    IN IF r.lazy THEN stop \o more ELSE more \o stop

RunRepOver(xs, k, r, count, s, ci) ==
    IF k > Len(xs) THEN << >>
    ELSE RunRep(r, count, s, xs[k].e, xs[k].g, ci) \o RunRepOver(xs, k + 1, r, count, s, ci)

\* RegExp.prototype.exec from index p on: the leftmost match, and of the
\* matches there the first one the matcher finds
NoExec == [found |-> FALSE, start |-> 0, end |-> 0, g |-> NoGroups]

RECURSIVE ExecFrom(_, _, _, _)
ExecFrom(r, s, p, ci) ==
    IF p > Len(s) + 1 THEN NoExec
    ELSE LET xs == Run(r, s, p, NoGroups, ci)
         IN IF xs # << >>
            THEN [found |-> TRUE, start |-> p, end |-> xs[1].e, g |-> xs[1].g]
            ELSE ExecFrom(r, s, p + 1, ci)

Exec(r, s, ci) == ExecFrom(r, s, 1, ci)

\* RegExp.prototype.test
Test(r, s, ci) == Exec(r, s, ci).found

\* m[n] of a match m on s; << >> for a group that took no part (the code
\* reads every group through "|| ''" or a test for truthiness)
Group(s, m, n) == SubSeq(s, m.g[n][1], m.g[n][2] - 1)

\* String.prototype.replace(pattern, rep): every match with the g flag,
\* the first match without it
RECURSIVE RegExpReplaceFrom(_, _, _, _, _, _)
RegExpReplaceFrom(r, s, p, rep, ci, all) ==
    LET m == ExecFrom(r, s, p, ci)
    IN IF ~m.found THEN SubSeq(s, p, Len(s))
       ELSE SubSeq(s, p, m.start - 1) \o rep
            \o (IF ~all THEN SubSeq(s, m.end, Len(s))
                ELSE IF m.end > m.start THEN RegExpReplaceFrom(r, s, m.end, rep, ci, all)
                ELSE IF m.start > Len(s) THEN << >>
                ELSE << s[m.start] >> \o RegExpReplaceFrom(r, s, m.start + 1, rep, ci, all))

RegExpReplace(r, s, rep) == RegExpReplaceFrom(r, s, 1, rep, FALSE, FALSE)
RegExpReplaceAll(r, s, rep) == RegExpReplaceFrom(r, s, 1, rep, FALSE, TRUE)

\* String.prototype.split(pattern) for a pattern that matches no empty string
RECURSIVE RegExpSplitFrom(_, _, _)
RegExpSplitFrom(r, s, p) ==
    LET m == ExecFrom(r, s, p, FALSE)
    IN IF ~m.found \/ m.end = m.start THEN << SubSeq(s, p, Len(s)) >>
       ELSE << SubSeq(s, p, m.start - 1) >> \o RegExpSplitFrom(r, s, m.end)

RegExpSplit(r, s) == RegExpSplitFrom(r, s, 1)

\* String.prototype.startsWith
StartsWith(s, prefix) == Len(s) >= Len(prefix) /\ SubSeq(s, 1, Len(prefix)) = prefix

-----------------------------------------------------------------------------
(* the extractor: the helpers of parseNameBlock *)

\* the digits in the order of their values
DigitUnits == << "0", "1", "2", "3", "4", "5", "6", "7", "8", "9" >>

\* Number(digits) for a string of \d+
RECURSIVE Number(_)
Number(digits) ==
    IF digits = << >> THEN 0
    ELSE 10 * Number(SubSeq(digits, 1, Len(digits) - 1))
         + (CHOOSE v \in 0..9 : DigitUnits[v + 1] = digits[Len(digits)])

\* String(n) for a natural number
RECURSIVE Decimal(_)
Decimal(n) ==
    IF n < 10 THEN << DigitUnits[n + 1] >>
    ELSE Decimal(n \div 10) \o << DigitUnits[(n % 10) + 1] >>

\* array.join(separator)
RECURSIVE Join(_, _)
Join(ss, separator) ==
    IF ss = << >> THEN << >>
    ELSE IF Len(ss) = 1 THEN ss[1]
    ELSE ss[1] \o separator \o Join(Tail(ss), separator)

\* array.map(s => s.trim())
TrimAll(ss) == [i \in 1..Len(ss) |-> Trim(ss[i])]

\* array.filter(Boolean) on strings
NonEmpty(ss) == SelectSeq(ss, LAMBDA x : x # << >>)

\* a || b || ... || '' on strings and undefined: the first truthy value
RECURSIVE FirstTruthy(_)
FirstTruthy(vs) ==
    IF vs = << >> THEN << >>
    ELSE IF Truthy(Head(vs)) THEN Head(vs)
    ELSE FirstTruthy(Tail(vs))

trimEmptyEdges(lines) ==
    LET full == { i \in 1..Len(lines) : Trim(lines[i]) # << >> }
    IN IF full = {} THEN << >>
       ELSE SubSeq(lines, CHOOSE i \in full : \A j \in full : i <= j,
                          CHOOSE i \in full : \A j \in full : j <= i)

\* lines.slice(startIdx, endIdx) with 0-based indices: the lines startIdx + 1
\* to endIdx of the sequence
sliceBetween(lines, startIdx, endIdx) ==
    SubSeq(lines, startIdx + 1, IF endIdx > Len(lines) THEN Len(lines) ELSE endIdx)

\* findIndex(lines, predicate, from) for the predicate "pattern tests true
\* on the trimmed line" (i flag): a 0-based index, or -1
findIndex(lines, pattern, from) ==
    LET hits == { i \in (from + 1)..Len(lines) : Test(pattern, Trim(lines[i]), TRUE) }
    IN IF hits = {} THEN -1
       ELSE (CHOOSE i \in hits : \A j \in hits : i <= j) - 1

-----------------------------------------------------------------------------
(* parseMarkdownTable and parseRootAnalysis *)

\* /^\|\s*-+/
SeparatorRowPattern == Cat(<< Bol, Chr({"|"}), Star(Ws), Plus(Chr({"-"})) >>)

\* lines 31-39: the trimmed lines of the first run of lines that start
\* with "|"
TableLines(lines) ==
    LET isRow(i) == StartsWith(Trim(lines[i]), << "|" >>)
        rows == { i \in 1..Len(lines) : isRow(i) }
        first == CHOOSE i \in rows : \A j \in rows : i <= j
        last == CHOOSE i \in rows :
                    /\ \A j \in first..i : isRow(j)
                    /\ (i = Len(lines) \/ ~isRow(i + 1))
    IN IF rows = {} THEN << >>
       ELSE [k \in 1..(last - first + 1) |-> Trim(lines[first + k - 1])]

\* row.slice(1, -1).split('|').map(c => c.trim())
splitRow(row) == TrimAll(SplitOn(SubSeq(row, 2, Len(row) - 1), "|"))

\* h || `col_${i + 1}`
HeaderKey(headers, i) ==
    IF headers[i] # << >> THEN headers[i] ELSE << "c", "o", "l", "_" >> \o Decimal(i)

\* lines 54-61: the object of one row, a function from its keys to cells;
\* a header that occurs twice keeps the cell of its last column
RowObject(headers, cells) ==
    [h \in { HeaderKey(headers, i) : i \in 1..Len(headers) } |->
        LET i == CHOOSE i \in 1..Len(headers) :
                     /\ HeaderKey(headers, i) = h
                     /\ \A j \in 1..Len(headers) : HeaderKey(headers, j) = h => j <= i
        IN IF i <= Len(cells) THEN cells[i] ELSE << >>]

parseMarkdownTable(lines) ==
    LET tableLines == TableLines(lines)
        cleaned == SelectSeq(tableLines, LAMBDA l : ~Test(SeparatorRowPattern, l, FALSE))
        headers == splitRow(cleaned[1])
    IN IF tableLines = << >> \/ cleaned = << >>
       THEN [headers |-> << >>, rows |-> << >>]
       ELSE [headers |-> headers,
             rows |-> [k \in 1..(Len(cleaned) - 1) |->
                          RowObject(headers, splitRow(cleaned[k + 1]))]]

\* row[key], Null for undefined
Cell(row, key) == IF key \in DOMAIN row THEN row[key] ELSE Null

\* /[“”"']/g
QuotePattern == Chr({"ldquo", "rdquo", "\"", "'"})

\* components of a Components cell
RootComponents(componentsRaw) ==
    LET pieces == SplitOn(componentsRaw, "+")
    IN NonEmpty([i \in 1..Len(pieces) |->
                   Trim(RegExpReplaceAll(QuotePattern, pieces[i], << >>))])

\* lines 127-149: the record of one row
RootRow(row) ==
    LET compound == FirstTruthy(<< Cell(row, << "C", "o", "m", "p", "o", "u", "n", "d" >>), Cell(row, << "c", "o", "m", "p", "o", "u", "n", "d" >>) >>)
        sandhiRaw == FirstTruthy(<< Cell(row, << "S", "a", "n", "d", "h", "i" >>), Cell(row, << "s", "a", "n", "d", "h", "i" >>) >>)
        componentsRaw == FirstTruthy(<< Cell(row, << "C", "o", "m", "p", "o", "n", "e", "n", "t", "s" >>), Cell(row, << "c", "o", "m", "p", "o", "n", "e", "n", "t", "s" >>) >>)
        grammarRaw == FirstTruthy(<< Cell(row, << "G", "r", "a", "m", "m", "a", "r" >>), Cell(row, << "g", "r", "a", "m", "m", "a", "r" >>) >>)
        literalRaw == FirstTruthy(<< Cell(row, << "L", "i", "t", "e", "r", "a", "l" >>), Cell(row, << "L", "i", "t", "e", "r", "a", "l", " ", "M", "e", "a", "n", "i", "n", "g" >>),
                                     Cell(row, << "l", "i", "t", "e", "r", "a", "l" >>), Cell(row, << "l", "i", "t", "e", "r", "a", "l", " ", "m", "e", "a", "n", "i", "n", "g" >>) >>)
        contextualRaw == FirstTruthy(<< Cell(row, << "C", "o", "n", "t", "e", "x", "t", "u", "a", "l" >>),
                                        Cell(row, << "C", "o", "n", "t", "e", "x", "t", "u", "a", "l", " ", "M", "e", "a", "n", "i", "n", "g" >>),
                                        Cell(row, << "c", "o", "n", "t", "e", "x", "t", "u", "a", "l" >>),
                                        Cell(row, << "c", "o", "n", "t", "e", "x", "t", "u", "a", "l", " ", "m", "e", "a", "n", "i", "n", "g" >>) >>)
    IN [compound |-> Trim(compound),
        sandhi |-> IF /\ sandhiRaw # << >>
                      /\ Trim(sandhiRaw) # << "emdash" >>
                      /\ Trim(sandhiRaw) # << "-" >>
                   THEN Trim(sandhiRaw) ELSE Null,
        components |-> RootComponents(componentsRaw),
        grammar |-> IF grammarRaw # << >> /\ Trim(grammarRaw) # << >>
                    THEN Trim(grammarRaw) ELSE Null,
        literal |-> Trim(literalRaw),
        contextual |-> Trim(contextualRaw)]

parseRootAnalysis(rootLines) ==
    LET table == parseMarkdownTable(rootLines)
    IN [k \in 1..Len(table.rows) |-> RootRow(table.rows[k])]

-----------------------------------------------------------------------------
(* parseCompositions *)

\* /^\*\*Word-by-word meaning\*\*/i
WordByWordPattern == Cat(<< Bol, Lit(<< "*", "*", "W", "o", "r", "d", "-", "b", "y", "-", "w", "o", "r", "d", " ", "m", "e", "a", "n", "i", "n", "g", "*", "*" >>) >>)

\* /^[\*\#\-\>\|]/
MarkupStartPattern == Cat(<< Bol, Chr({"*", "#", "-", ">", "|"}) >>)

\* /\s{2,}/g
WideSpacePattern == Rep(Ws, 2, 0, FALSE)

\* /^\*\s+/
BulletPattern == Cat(<< Bol, Chr({"*"}), Plus(Ws) >>)

Dashes == {"emdash", "endash", "-"}

\* /^\*\s+\*\*(.+?)\*\*\s*[—–-]\s*(.+)$/
BoldEntryPattern ==
    Cat(<< Bol, Chr({"*"}), Plus(Ws), Lit(<< "*", "*" >>), Grp(1, LazyPlus(AnyChr)), Lit(<< "*", "*" >>),
           Star(Ws), Chr(Dashes), Star(Ws), Grp(2, Plus(AnyChr)), Eol >>)

\* /^\*\s+([^—–-]+)[—–-]\s*(.+)$/
PlainEntryPattern ==
    Cat(<< Bol, Chr({"*"}), Plus(Ws), Grp(1, Plus(NotChr(Dashes))), Chr(Dashes),
           Star(Ws), Grp(2, Plus(AnyChr)), Eol >>)

\* /^\*\s+\*\*|\*\*$/
BoldMarkPattern ==
    Alt(<< Cat(<< Bol, Chr({"*"}), Plus(Ws), Lit(<< "*", "*" >>) >>), Cat(<< Lit(<< "*", "*" >>), Eol >>) >>)

\* lines 186-201: the entry of one bullet line
BulletEntry(b) ==
    LET trimmed == Trim(b)
        m == Exec(BoldEntryPattern, trimmed, FALSE)
        m2 == Exec(PlainEntryPattern, trimmed, FALSE)
    IN IF m.found
       THEN [word |-> Trim(Group(trimmed, m, 1)), meaning |-> Trim(Group(trimmed, m, 2))]
       ELSE IF m2.found
       THEN [word |-> Trim(Group(trimmed, m2, 1)), meaning |-> Trim(Group(trimmed, m2, 2))]
       ELSE [word |-> Trim(RegExpReplace(BoldMarkPattern, trimmed, << >>)),
             meaning |-> << >>]

parseCompositions(compLines) ==
    LET marks == { i \in 1..Len(compLines) :
                     Test(WordByWordPattern, Trim(compLines[i]), TRUE) }
        wordByWordIndex == IF marks = {} THEN -1
                           ELSE (CHOOSE i \in marks : \A j \in marks : i <= j) - 1
        summaryLines == IF wordByWordIndex >= 0
                        THEN SubSeq(compLines, 1, wordByWordIndex) ELSE compLines
        bulletLines == IF wordByWordIndex >= 0
                       THEN SubSeq(compLines, wordByWordIndex + 2, Len(compLines))
                       ELSE << >>
        prose == SelectSeq(TrimAll(summaryLines),
                     LAMBDA t : /\ t # << >>
                                /\ ~Test(MarkupStartPattern, t, FALSE)
                                /\ ~StartsWith(t, << "*", "*", "W", "o", "r", "d", "-", "b", "y", "-", "w", "o", "r", "d" >>))
        bullets == SelectSeq(bulletLines, LAMBDA l : Test(BulletPattern, Trim(l), FALSE))
    IN IF compLines = << >> THEN [overview |-> << >>, entries |-> << >>]
       ELSE [overview |-> Trim(RegExpReplaceAll(WideSpacePattern,
                                                Join(prose, << " " >>), << " " >>)),
             entries |-> [k \in 1..Len(bullets) |-> BulletEntry(bullets[k])]]

-----------------------------------------------------------------------------
(* the commentaries *)

\* /^>\s?/
QuoteMarkPattern == Cat(<< Bol, Chr({">"}), Opt(Ws) >>)

stripBlockquote(lines) ==
    Join([i \in 1..Len(lines) |-> RegExpReplace(QuoteMarkPattern, lines[i], << >>)],
         << "\n" >>)

parseCommentary(lines, author, period, source) ==
    [author |-> author, period |-> period,
     text |-> stripBlockquote(trimEmptyEdges(lines)), source |-> source]

\* /\s+/g
SpacesPattern == Plus(Ws)

\* source.toLowerCase().replace(/\s+/g, '')
SourceKey(source) == RegExpReplaceAll(SpacesPattern, ToLowerCase(source), << >>)

\* lines 235-239: sourceMap
sourceMap ==
    (<< "s", "a", "n", "s", "k", "r", "i", "t", "d", "o", "c", "u", "m", "e", "n", "t", "s" >> :> [author |-> << "S", "a", "n", "s", "k", "r", "i", "t", " ", "D", "o", "c", "u", "m", "e", "n", "t", "s" >>, period |-> << "M", "o", "d", "e", "r", "n" >>])
    @@ (<< "b", "h", "a", "s", "k", "a", "r", "a", "y", "a" >> :> [author |-> << "B", "h", "a_macron", "s", "k", "a", "r", "a", "r", "a_macron", "y", "a" >>, period |-> << "1", "8", "t", "h", " ", "c", "e", "n", "t", "u", "r", "y" >>])
    @@ (<< "v", "r", "a", "v", "i" >> :> [author |-> << "V", ".", " ", "R", "a", "v", "i" >>, period |-> << "M", "o", "d", "e", "r", "n" >>])

getSourceMetadata(source) ==
    IF SourceKey(source) \in DOMAIN sourceMap
    THEN sourceMap[SourceKey(source)]
    ELSE [author |-> source, period |-> << "U", "n", "k", "n", "o", "w", "n" >>]

\* /^##\s+COMMENTARIES\s*\(([^)]+)\)/i
CommentariesHeaderPattern ==
    Cat(<< Bol, Lit(<< "#", "#" >>), Plus(Ws), Lit(<< "C", "O", "M", "M", "E", "N", "T", "A", "R", "I", "E", "S" >>), Star(Ws), Chr({"("}),
           Grp(1, Plus(NotChr({")"}))), Chr({")"}) >>)

\* /^>\s*\*\*[^*]+\*\*\s*—\s*/
QuotedNamePattern ==
    Cat(<< Bol, Chr({">"}), Star(Ws), Lit(<< "*", "*" >>), Plus(NotChr({"*"})), Lit(<< "*", "*" >>),
           Star(Ws), Chr({"emdash"}), Star(Ws) >>)

\* /^>\s*/
QuoteStartPattern == Cat(<< Bol, Chr({">"}), Star(Ws) >>)

\* lines 269-279: the text of one line of a COMMENTARIES section
CommentaryLineText(l) ==
    LET trimmed == Trim(l)
    IN IF StartsWith(trimmed, << ">" >>)
       THEN Trim(RegExpReplace(QuoteStartPattern,
                               RegExpReplace(QuotedNamePattern, trimmed, << >>), << >>))
       ELSE << >>

\* << >> for null (the section is not parsed), << parsed >> otherwise
parseCommentariesSection(lines) ==
    LET header == Trim(lines[1])
        headerMatch == Exec(CommentariesHeaderPattern, header, TRUE)
        sourceName == Trim(Group(header, headerMatch, 1))
        commentLines == Tail(lines)
        commentaryText ==
            Join(NonEmpty([i \in 1..Len(commentLines) |-> CommentaryLineText(commentLines[i])]),
                 << " " >>)
    IN IF lines = << >> THEN << >>
       ELSE IF ~headerMatch.found THEN << >>
       ELSE << [author |-> getSourceMetadata(sourceName).author,
                period |-> getSourceMetadata(sourceName).period,
                text |-> Trim(commentaryText),
                source |-> sourceName] >>

-----------------------------------------------------------------------------
(* parseNameLines and tokenizeName *)

\* /॥\s*(\d+)\s*॥/
NameNumberPattern ==
    Cat(<< Chr({DDANDA}), Star(Ws), Grp(1, Plus(Digit)), Star(Ws), Chr({DDANDA}) >>)

LatinLetters ==
    { "a", "b", "c", "d", "e", "f", "g", "h", "i", "j", "k", "l", "m", "n", "o", "p", "q",
      "r", "s", "t", "u", "v", "w", "x", "y", "z" }

\* /^[a-zA-Zāīūṛēōṃḥśṣṇṭḍ]/i
IastStartPattern ==
    Cat(<< Bol, Chr(LatinLetters \cup DOMAIN LowerOf
                    \cup { "a_macron", "i_macron", "u_macron", "r_dot", "e_macron",
                           "o_macron", "m_dot", "h_dot", "s_acute", "s_dot", "n_dot",
                           "t_dot", "d_dot" }) >>)

\* /^[॥|]/i
MarkerStartPattern == Cat(<< Bol, Chr({DDANDA, "|"}) >>)

\* /[।॥]/g
DandaPattern == Chr({DANDA, DDANDA})

\* line.replace(/[।॥]/g, '').trim()
stripPunctuationToken(t) == Trim(RegExpReplaceAll(DandaPattern, t, << >>))

\* lines 313-333: the body of the loop for line i, on the values so far
RECURSIVE NameLinesFrom(_, _, _)
NameLinesFrom(nameLinesRaw, i, acc) ==
    IF i > Len(nameLinesRaw) THEN acc
    ELSE LET l == Trim(RegExpReplace(QuoteStartPattern, nameLinesRaw[i], << >>))
             nameNumMatch == Exec(NameNumberPattern, l, FALSE)
             isIAST == Test(IastStartPattern, l, TRUE)
         IN NameLinesFrom(nameLinesRaw, i + 1,
                IF nameNumMatch.found
                THEN [acc EXCEPT !.nameNumber = Number(Group(l, nameNumMatch, 1))]
                ELSE IF isIAST /\ acc.iast = << >>
                THEN [acc EXCEPT !.iast = stripPunctuationToken(l)]
                ELSE IF /\ ~isIAST /\ l # << >>
                        /\ ~Test(MarkerStartPattern, l, TRUE)
                        /\ acc.devanagari = << >>
                THEN [acc EXCEPT !.devanagari = stripPunctuationToken(l)]
                ELSE acc)

parseNameLines(nameLinesRaw) ==
    NameLinesFrom(nameLinesRaw, 1,
                  [devanagari |-> << >>, iast |-> << >>, nameNumber |-> NoNumber])

tokenizeName(devanagari) ==
    IF devanagari = << >> THEN << >>
    ELSE LET pieces == RegExpSplit(SpacesPattern, devanagari)
         IN NonEmpty([i \in 1..Len(pieces) |-> stripPunctuationToken(pieces[i])])

-----------------------------------------------------------------------------
(* parseEtymology *)

\* /^###\s*\d+\.\s*\*\*(.+?)\*\*|^###\s*\*\*(.+?)\*\*/i
CompoundHeaderPattern ==
    Alt(<< Cat(<< Bol, Lit(<< "#", "#", "#" >>), Star(Ws), Plus(Digit), Chr({"."}), Star(Ws), Lit(<< "*", "*" >>),
                  Grp(1, LazyPlus(AnyChr)), Lit(<< "*", "*" >>) >>),
           Cat(<< Bol, Lit(<< "#", "#", "#" >>), Star(Ws), Lit(<< "*", "*" >>), Grp(2, LazyPlus(AnyChr)),
                  Lit(<< "*", "*" >>) >>) >>)

\* /^\*\*Breakdown\*\*:\s*`(.+?)`/
BreakdownFieldPattern ==
    Cat(<< Bol, Lit(<< "*", "*", "B", "r", "e", "a", "k", "d", "o", "w", "n", "*", "*", ":" >>), Star(Ws), Chr({"backtick"}), Grp(1, LazyPlus(AnyChr)),
           Chr({"backtick"}) >>)

\* (?:\n|$)
LineEnd == Alt(<< Chr({"\n"}), Eol >>)

\* /-?\s*\*\*Root.*?\*\*:?\s*(?:.*?)?\u221A([a-zāīūṛēō]+)\s*\([^)]+\)\s*—\s*"([^"]+)"\s*(?:\(Class\s*(\d+[PA])\))?/i
DhatuFieldPattern ==
    Cat(<< Opt(Chr({"-"})), Star(Ws), Lit(<< "*", "*", "R", "o", "o", "t" >>), LazyStar(AnyChr), Lit(<< "*", "*" >>),
           Opt(Chr({":"})), Star(Ws), Opt(LazyStar(AnyChr)), Chr({"sqrt"}),
           Grp(1, Plus(Chr(LatinLetters \cup { "a_macron", "i_macron", "u_macron", "r_dot",
                                               "e_macron", "o_macron" }))),
           Star(Ws), Chr({"("}), Plus(NotChr({")"})), Chr({")"}), Star(Ws),
           Chr({"emdash"}), Star(Ws), Chr({"\""}), Grp(2, Plus(NotChr({"\""}))),
           Chr({"\""}), Star(Ws),
           Opt(Cat(<< Lit(<< "(", "C", "l", "a", "s", "s" >>), Star(Ws), Grp(3, Cat(<< Plus(Digit), Chr({"P", "A"}) >>)),
                      Chr({")"}) >>)) >>)

\* /-?\s*\*\*<label>\*\*:?\s*(.+?)(?:\n|$)/i
FieldPattern(label) ==
    Cat(<< Opt(Chr({"-"})), Star(Ws), Lit(<< "*", "*" >>), Lit(label), Lit(<< "*", "*" >>), Opt(Chr({":"})),
           Star(Ws), Grp(1, LazyPlus(AnyChr)), LineEnd >>)

\* /-?\s*\*\*Upasarga.*?\*\*:?\s*(.+?)(?:\n|$)/i
UpasargaFieldPattern ==
    Cat(<< Opt(Chr({"-"})), Star(Ws), Lit(<< "*", "*", "U", "p", "a", "s", "a", "r", "g", "a" >>), LazyStar(AnyChr), Lit(<< "*", "*" >>),
           Opt(Chr({":"})), Star(Ws), Grp(1, LazyPlus(AnyChr)), LineEnd >>)

\* /-?\s*\*\*Formation\*\*:?\s*(.+)/i
FormationFieldPattern ==
    Cat(<< Opt(Chr({"-"})), Star(Ws), Lit(<< "*", "*", "F", "o", "r", "m", "a", "t", "i", "o", "n", "*", "*" >>), Opt(Chr({":"})), Star(Ws),
           Grp(1, Plus(AnyChr)) >>)

\* /-?\s*\*\*<label>\*\*:?\s*"([^"]+)"/
QuotedFieldPattern(label) ==
    Cat(<< Opt(Chr({"-"})), Star(Ws), Lit(<< "*", "*" >>), Lit(label), Lit(<< "*", "*" >>), Opt(Chr({":"})),
           Star(Ws), Chr({"\""}), Grp(1, Plus(NotChr({"\""}))), Chr({"\""}) >>)

\* /-?\s*\*\*Meaning\*\*:?\s*"([^"]+)"\s*\u2192\s*\*\*([^*]+)\*\*/
MeaningArrowPattern ==
    Cat(<< Opt(Chr({"-"})), Star(Ws), Lit(<< "*", "*", "M", "e", "a", "n", "i", "n", "g", "*", "*" >>), Opt(Chr({":"})), Star(Ws),
           Chr({"\""}), Grp(1, Plus(NotChr({"\""}))), Chr({"\""}), Star(Ws),
           Chr({"arrow"}), Star(Ws), Lit(<< "*", "*" >>), Grp(2, Plus(NotChr({"*"}))), Lit(<< "*", "*" >>) >>)

\* /^[\d.\s]+/
StepNumberPattern == Cat(<< Bol, Plus(Chr(AsciiDigits \cup {"."} \cup WhiteSpace)) >>)

\* line.includes('Formation')
Includes(s, pat) == IndexOf(s, pat) # 0

\* lines 349-360: currentData of a compound header
NewCompoundData ==
    [breakdown |-> << >>,
     dhatu |-> [root |-> << >>, meaning |-> << >>, class |-> << >>],
     upasarga |-> << >>,
     suffix |-> << >>,
     sandhi |-> Null,
     formation |-> << >>,
     grammar |-> << >>,
     meaning |-> [literal |-> << >>, contextual |-> << >>]]

\* lines 413-422: the formation lines collected from line j on
RECURSIVE FormationLinesFrom(_, _, _)
FormationLinesFrom(etymologyLines, j, formationLines) ==
    IF j > Len(etymologyLines) THEN formationLines
    ELSE LET formLine == Trim(etymologyLines[j])
         IN IF /\ formLine # << >>
               /\ ~StartsWith(formLine, << "-", " ", "*", "*" >>)
               /\ ~StartsWith(formLine, << "#", "#", "#" >>)
            THEN FormationLinesFrom(etymologyLines, j + 1,
                     Append(formationLines,
                            Trim(RegExpReplace(StepNumberPattern, formLine, << >>))))
            ELSE IF formationLines # << >> THEN formationLines
            ELSE FormationLinesFrom(etymologyLines, j + 1, formationLines)

\* the pieces of a list field: text.split(sep).map(trim).filter(Boolean)
ListField(text, sep) == NonEmpty(TrimAll(SplitOn(text, sep)))

\* lines 366-452: currentData after line i of a compound's prose
CompoundLine(etymologyLines, i, currentData) ==
    LET l == Trim(etymologyLines[i])
        breakdownMatch == Exec(BreakdownFieldPattern, l, FALSE)
        dhatuMatch == Exec(DhatuFieldPattern, l, TRUE)
        upasargaMatch == Exec(UpasargaFieldPattern, l, TRUE)
        suffixMatch == Exec(FieldPattern(<< "S", "u", "f", "f", "i", "x" >>), l, TRUE)
        sandhiMatch == Exec(FieldPattern(<< "S", "a", "n", "d", "h", "i" >>), l, TRUE)
        sandhiText == Trim(Group(l, sandhiMatch, 1))
        formationMatch == Exec(FormationFieldPattern, l, TRUE)
        grammarMatch == Exec(FieldPattern(<< "G", "r", "a", "m", "m", "a", "r" >>), l, TRUE)
        literalMatch == Exec(QuotedFieldPattern(<< "L", "i", "t", "e", "r", "a", "l" >>), l, FALSE)
        contextualMatch == Exec(QuotedFieldPattern(<< "C", "o", "n", "t", "e", "x", "t", "u", "a", "l" >>), l, FALSE)
        meaningArrowMatch == Exec(MeaningArrowPattern, l, FALSE)
    IN IF breakdownMatch.found
       THEN [currentData EXCEPT !.breakdown = ListField(Group(l, breakdownMatch, 1), "+")]
       ELSE IF dhatuMatch.found
       THEN [currentData EXCEPT !.dhatu = [root |-> Group(l, dhatuMatch, 1),
                                           meaning |-> Group(l, dhatuMatch, 2),
                                           class |-> Group(l, dhatuMatch, 3)]]
       ELSE IF upasargaMatch.found
       THEN [currentData EXCEPT !.upasarga = ListField(Trim(Group(l, upasargaMatch, 1)), ",")]
       ELSE IF suffixMatch.found
       THEN [currentData EXCEPT !.suffix = Trim(Group(l, suffixMatch, 1))]
       ELSE IF sandhiMatch.found
       THEN [currentData EXCEPT !.sandhi =
                IF sandhiText = << "n", "o", "n", "e" >> \/ sandhiText = << "emdash" >> THEN Null
                ELSE sandhiText]
       ELSE IF formationMatch.found \/ Includes(l, << "F", "o", "r", "m", "a", "t", "i", "o", "n" >>)
       THEN [currentData EXCEPT !.formation =
                Join(FormationLinesFrom(etymologyLines, i, << >>), << " ", "arrow", " " >>)]
       ELSE IF grammarMatch.found
       THEN [currentData EXCEPT !.grammar = Trim(Group(l, grammarMatch, 1))]
       ELSE IF literalMatch.found
       THEN [currentData EXCEPT !.meaning.literal = Trim(Group(l, literalMatch, 1))]
       ELSE IF contextualMatch.found
       THEN [currentData EXCEPT !.meaning.contextual = Trim(Group(l, contextualMatch, 1))]
       ELSE IF meaningArrowMatch.found
       THEN [currentData EXCEPT !.meaning =
                [literal |-> Trim(Group(l, meaningArrowMatch, 1)),
                 contextual |-> Trim(Group(l, meaningArrowMatch, 2))]]
       ELSE currentData

\* etymology[currentCompound] = currentData, when the compound is truthy
SaveCompound(etymology, currentCompound, currentData) ==
    IF Truthy(currentCompound) THEN MapSet(etymology, currentCompound, currentData)
    ELSE etymology

\* lines 349-460: the loop from line i on; currentCompound is Null before
\* the first header
RECURSIVE EtymologyFrom(_, _, _, _, _)
EtymologyFrom(etymologyLines, i, etymology, currentCompound, currentData) ==
    IF i > Len(etymologyLines)
    THEN SaveCompound(etymology, currentCompound, currentData)
    ELSE LET l == Trim(etymologyLines[i])
             compoundMatch == Exec(CompoundHeaderPattern, l, TRUE)
         IN IF compoundMatch.found
            THEN EtymologyFrom(etymologyLines, i + 1,
                     SaveCompound(etymology, currentCompound, currentData),
                     Trim(FirstTruthy(<< Group(l, compoundMatch, 1),
                                         Group(l, compoundMatch, 2) >>)),
                     NewCompoundData)
            ELSE IF ~Truthy(currentCompound)
            THEN EtymologyFrom(etymologyLines, i + 1, etymology, currentCompound, currentData)
            ELSE EtymologyFrom(etymologyLines, i + 1, etymology, currentCompound,
                               CompoundLine(etymologyLines, i, currentData))

parseEtymology(etymologyLines) ==
    EtymologyFrom(etymologyLines, 1, << >>, Null, NewCompoundData)

-----------------------------------------------------------------------------
(* parseNameBlock *)

\* /^#\s+NAME\s+(\d+)/i
TitlePattern ==
    Cat(<< Bol, Chr({"#"}), Plus(Ws), Lit(<< "N", "A", "M", "E" >>), Plus(Ws), Grp(1, Plus(Digit)) >>)

\* /^##\s+ROOT\s+BREAKDOWN/i
RootHeaderPattern ==
    Cat(<< Bol, Lit(<< "#", "#" >>), Plus(Ws), Lit(<< "R", "O", "O", "T" >>), Plus(Ws), Lit(<< "B", "R", "E", "A", "K", "D", "O", "W", "N" >>) >>)

\* /^##\s+ETYMOLOGY\s*\(/i
EtymologyHeaderPattern ==
    Cat(<< Bol, Lit(<< "#", "#" >>), Plus(Ws), Lit(<< "E", "T", "Y", "M", "O", "L", "O", "G", "Y" >>), Star(Ws), Chr({"("}) >>)

\* /^##\s+COMPOSITIONS/i
CompositionsHeaderPattern == Cat(<< Bol, Lit(<< "#", "#" >>), Plus(Ws), Lit(<< "C", "O", "M", "P", "O", "S", "I", "T", "I", "O", "N", "S" >>) >>)

\* /^##\s+COMMENTARY\s*\(.*BH.*SKARAR.*YA/i
BhaskararayaHeaderPattern ==
    Cat(<< Bol, Lit(<< "#", "#" >>), Plus(Ws), Lit(<< "C", "O", "M", "M", "E", "N", "T", "A", "R", "Y" >>), Star(Ws), Chr({"("}), Star(AnyChr),
           Lit(<< "B", "H" >>), Star(AnyChr), Lit(<< "S", "K", "A", "R", "A", "R" >>), Star(AnyChr), Lit(<< "Y", "A" >>) >>)

\* /^##\s+COMMENTARY\s*\(.*V\.?\s*RAVI/i
VRaviHeaderPattern ==
    Cat(<< Bol, Lit(<< "#", "#" >>), Plus(Ws), Lit(<< "C", "O", "M", "M", "E", "N", "T", "A", "R", "Y" >>), Star(Ws), Chr({"("}), Star(AnyChr),
           Chr({"V"}), Opt(Chr({"."})), Star(Ws), Lit(<< "R", "A", "V", "I" >>) >>)

\* /^##\s+COMMENTARIES\s*\(/i
CommentariesSectionPattern ==
    Cat(<< Bol, Lit(<< "#", "#" >>), Plus(Ws), Lit(<< "C", "O", "M", "M", "E", "N", "T", "A", "R", "I", "E", "S" >>), Star(Ws), Chr({"("}) >>)

\* lines 563-570: the 0-based index of the first line behind index from
\* that starts with "##", or the length of the block
SectionEnd(blockLines, from) ==
    LET heads == { e \in (from + 1)..Len(blockLines) :
                     StartsWith(Trim(blockLines[e]), << "#", "#" >>) }
    IN IF heads = {} THEN Len(blockLines)
       ELSE (CHOOSE e \in heads : \A f \in heads : e <= f) - 1

\* lines 558-583: the parsed COMMENTARIES sections from the section at
\* 0-based index currentCommentaryIdx on
RECURSIVE CommentariesSectionsFrom(_, _)
CommentariesSectionsFrom(blockLines, currentCommentaryIdx) ==
    IF currentCommentaryIdx = -1 THEN << >>
    ELSE LET endIdx == SectionEnd(blockLines, currentCommentaryIdx + 1)
         IN parseCommentariesSection(sliceBetween(blockLines, currentCommentaryIdx, endIdx))
            \o CommentariesSectionsFrom(blockLines,
                   findIndex(blockLines, CommentariesSectionPattern, endIdx))

\* lines 634-643: an entry of rootBreakdown
RootBreakdownEntry(r) ==
    [compound |-> r.compound, sandhi |-> r.sandhi, components |-> r.components,
     grammar |-> r.grammar,
     meaning |-> [literal |-> r.literal, contextual |-> r.contextual]]

NoDhatu == [root |-> << >>, meaning |-> << >>, class |-> << >>]

\* lines 649-662: the merged record of one rootBreakdown entry; detailed is
\* {} when the prose has no subsection of the compound, and the sandhi of a
\* subsection is never undefined (null when the prose sets none)
MergedEtymology(rb, parsedEtymology) ==
    IF rb.compound \in DOMAIN parsedEtymology
    THEN LET detailed == parsedEtymology[rb.compound]
         IN [breakdown |-> IF detailed.breakdown # << >> THEN detailed.breakdown
                           ELSE rb.components,
             dhatu |-> IF detailed.dhatu.root # << >> THEN detailed.dhatu ELSE NoDhatu,
             upasarga |-> detailed.upasarga,
             suffix |-> detailed.suffix,
             sandhi |-> detailed.sandhi,
             formation |-> detailed.formation,
             grammar |-> FirstTruthy(<< detailed.grammar, rb.grammar >>),
             meaning |-> [literal |-> FirstTruthy(<< detailed.meaning.literal,
                                                    rb.meaning.literal >>),
                          contextual |-> FirstTruthy(<< detailed.meaning.contextual,
                                                       rb.meaning.contextual >>)]]
    ELSE [breakdown |-> rb.components,
          dhatu |-> NoDhatu,
          upasarga |-> << >>,
          suffix |-> << >>,
          sandhi |-> rb.sandhi,
          formation |-> << >>,
          grammar |-> FirstTruthy(<< rb.grammar >>),
          meaning |-> [literal |-> rb.meaning.literal,
                       contextual |-> rb.meaning.contextual]]

\* lines 645-663: etymology, a function from the compounds of rootBreakdown;
\* a compound of two rows keeps the record of its last row
EtymologyOf(rootBreakdown, parsedEtymology) ==
    [c \in { rootBreakdown[k].compound : k \in 1..Len(rootBreakdown) } |->
        LET k == CHOOSE k \in 1..Len(rootBreakdown) :
                     /\ rootBreakdown[k].compound = c
                     /\ \A j \in 1..Len(rootBreakdown) :
                           rootBreakdown[j].compound = c => j <= k
        IN MergedEtymology(rootBreakdown[k], parsedEtymology)]

\* lines 681-691: the entries of the COMMENTARIES sections spread over the
\* two fixed entries
RECURSIVE SpreadSections(_, _)
SpreadSections(commentariesMap, sections) ==
    IF sections = << >> THEN commentariesMap
    ELSE SpreadSections(MapSet(commentariesMap, SourceKey(Head(sections).source),
                               Head(sections)),
                        Tail(sections))

\* lines 678-693: commentaries, a function from the keys
CommentariesOf(bhLines, vrLines, commentariesSections) ==
    SpreadSections(
        (<< "b", "h", "a", "s", "k", "a", "r", "a", "r", "a", "y", "a" >> :> parseCommentary(bhLines, << "B", "h", "a_macron", "s", "k", "a", "r", "a", "r", "a_macron", "y", "a" >>, << "1", "8", "t", "h", " ", "c", "e", "n", "t", "u", "r", "y" >>,
                                           << "S", "a", "u", "b", "h", "a_macron", "g", "y", "a", "-", "b", "h", "a_macron", "s", "k", "a", "r", "a" >>))
        @@ (<< "v", "R", "a", "v", "i" >> :> parseCommentary(vrLines, << "V", ".", " ", "R", "a", "v", "i" >>, << "M", "o", "d", "e", "r", "n" >>,
                                       << "C", "o", "n", "t", "e", "m", "p", "o", "r", "a", "r", "y", " ", "T", "r", "a", "n", "s", "l", "a", "t", "i", "o", "n" >>)),
        commentariesSections)

\* NameNumberOf in which the number of the header comes first
NameNumberOfHeaderFirst(headerNumber, nameNumFromText) ==
    IF headerNumber # NoNumber THEN headerNumber ELSE nameNumFromText

\* lines 540 and 593-596: the number of the header, overridden by the number
\* of the name lines
NameNumberOf(headerNumber, nameNumFromText) ==
    IF nameNumFromText # NoNumber THEN nameNumFromText ELSE headerNumber

\* lines 538-540: the number of the title line, NoNumber for null
HeaderNumber(blockLines) ==
    LET titleLine == IF blockLines = << >> THEN << >> ELSE Trim(blockLines[1])
        m == Exec(TitlePattern, titleLine, TRUE)
    IN IF m.found THEN Number(Group(titleLine, m, 1)) ELSE NoNumber

\* a !== -1 ? a : b !== -1 ? b : ...
FirstFound(indices, otherwise) ==
    LET hits == { k \in 1..Len(indices) : indices[k] # -1 }
    IN IF hits = {} THEN otherwise
       ELSE indices[CHOOSE k \in hits : \A j \in hits : k <= j]

\* idx !== -1 ? trimEmptyEdges(sliceBetween(blockLines, idx + 1, end)) : []
SectionLines(blockLines, idx, end) ==
    IF idx # -1 THEN trimEmptyEdges(sliceBetween(blockLines, idx + 1, end)) ELSE << >>

\* lines 634-643: rootBreakdown
RootBreakdownOf(rootAnalysis) ==
    [k \in 1..Len(rootAnalysis) |-> RootBreakdownEntry(rootAnalysis[k])]

\* line 631: wordByWord
WordByWordOf(entries) ==
    [k \in 1..Len(entries) |-> [compound |-> entries[k].word, meaning |-> entries[k].meaning]]

\* lines 593-598 and 665-694: the entry, from what the parts of the block parse to
NameEntryOf(headerNumber, parsedName, rootBreakdown, parsedEtymology, comp, entryCommentaries) ==
    [nameNumber |-> NameNumberOf(headerNumber, parsedName.nameNumber),
     name |-> [devanagari |-> parsedName.devanagari,
               iast |-> parsedName.iast,
               tokens |-> tokenizeName(parsedName.devanagari)],
     rootBreakdown |-> rootBreakdown,
     etymology |-> EtymologyOf(rootBreakdown, parsedEtymology),
     compositions |-> [summary |-> comp.overview, wordByWord |-> WordByWordOf(comp.entries)],
     commentaries |-> entryCommentaries]

\* lines 585-628: the parts of the block between the indices of its headers
ParsedBetween(blockLines, headerNumber, idxRoot, idxEtymology, idxComp, idxBh, idxVR, commentariesSections) ==
    NameEntryOf(
        headerNumber,
        parseNameLines(trimEmptyEdges(sliceBetween(blockLines, 1,
            FirstFound(<< idxRoot, idxEtymology, idxComp >>, Len(blockLines))))),
        RootBreakdownOf(parseRootAnalysis(SectionLines(blockLines, idxRoot,
            FirstFound(<< idxEtymology, idxComp >>, Len(blockLines))))),
        parseEtymology(SectionLines(blockLines, idxEtymology,
            FirstFound(<< idxComp >>, Len(blockLines)))),
        parseCompositions(SectionLines(blockLines, idxComp,
            FirstFound(<< idxBh >>, Len(blockLines)))),
        CommentariesOf(
            SectionLines(blockLines, idxBh, FirstFound(<< idxVR >>, Len(blockLines))),
            SectionLines(blockLines, idxVR, Len(blockLines)),
            commentariesSections))

parseNameBlock(blockLines) ==
    ParsedBetween(blockLines,
        HeaderNumber(blockLines),
        findIndex(blockLines, RootHeaderPattern, 0),
        findIndex(blockLines, EtymologyHeaderPattern, 0),
        findIndex(blockLines, CompositionsHeaderPattern, 0),
        findIndex(blockLines, BhaskararayaHeaderPattern, 0),
        findIndex(blockLines, VRaviHeaderPattern, 0),
        CommentariesSectionsFrom(blockLines,
            findIndex(blockLines, CommentariesSectionPattern, 0)))

-----------------------------------------------------------------------------
(* the extractor: main splits the corpus into blocks *)

\* the argument of line.startsWith at line 722
NameHeaderPrefix == << "#", " ", "N", "A", "M", "E", " " >>

\* lines 719-730: the loop over the lines from line i on, current being the
\* block that is collected, and the push behind the loop
RECURSIVE BlocksFrom(_, _, _)
BlocksFrom(lines, i, current) ==
    IF i > Len(lines)
    THEN (IF Len(current) > 0 THEN << current >> ELSE << >>)
    ELSE IF StartsWith(lines[i], NameHeaderPrefix)
         THEN (IF Len(current) > 0 THEN << current >> ELSE << >>)
              \o BlocksFrom(lines, i + 1, << lines[i] >>)
         ELSE BlocksFrom(lines, i + 1, Append(current, lines[i]))

\* lines 717-730: the blocks of the lines
SplitBlocks(lines) == BlocksFrom(lines, 1, << >>)

\* line 732: blocks.map(parseNameBlock)
ParsedBlocks(bs) == [i \in 1..Len(bs) |-> parseNameBlock(bs[i])]

-----------------------------------------------------------------------------
(* convert-to-names.js: the template generator *)

\* String.prototype.toUpperCase on the letters of LowerOf
UpperCase(c) ==
    IF \E u \in DOMAIN LowerOf : LowerOf[u] = c
    THEN CHOOSE u \in DOMAIN LowerOf : LowerOf[u] = c
    ELSE c

\* path.basename(filename, '.json'): file names hold no directory; a name
\* that is the suffix itself gives ''
BaseName(filename) ==
    IF Len(filename) >= 5 /\ SubSeq(filename, Len(filename) - 4, Len(filename)) = << ".", "j", "s", "o", "n" >>
    THEN SubSeq(filename, 1, Len(filename) - 5)
    ELSE filename

\* lines 71-73: filenameToSectionTitle
filenameToSectionTitle(filename) ==
    [i \in 1..Len(BaseName(filename)) |->
        IF BaseName(filename)[i] = "-" THEN " " ELSE UpperCase(BaseName(filename)[i])]

\* lines 81-94: findCommentary of convert-to-names.js; commentaries is a
\* sequence of [key, text] pairs, '' is << >>
FindNameCommentary(entries, devanagari) ==
    IF Truthy(Lookup(entries, devanagari)) THEN Lookup(entries, devanagari)
    ELSE IF /\ RemoveDashes(devanagari) # devanagari
            /\ Truthy(Lookup(entries, RemoveDashes(devanagari)))
         THEN Lookup(entries, RemoveDashes(devanagari))
    ELSE << >>

\* the code units of the file names, in the order of their values
FileNameUnits ==
    << "-", ".", "a", "b", "c", "d", "e", "f", "g", "h", "i", "j", "k", "l", "m", "n",
       "o", "p", "q", "r", "s", "t", "u", "v", "w", "x", "y", "z" >>

UnitRank(c) == CHOOSE i \in 1..Len(FileNameUnits) : FileNameUnits[i] = c

\* a < b in the order of Array.prototype.sort without comparator
RECURSIVE SortsBefore(_, _)
SortsBefore(a, b) ==
    IF b = << >> THEN FALSE
    ELSE IF a = << >> THEN TRUE
    ELSE IF Head(a) # Head(b) THEN UnitRank(Head(a)) < UnitRank(Head(b))
    ELSE SortsBefore(Tail(a), Tail(b))

\* line 108: Object.keys(commentariesByFile).sort(); byFile is a sequence
\* of [file, entries] pairs with distinct file names, in insertion order
RECURSIVE SortedFiles(_)
SortedFiles(byFile) ==
    IF byFile = << >> THEN << >>
    ELSE LET least == CHOOSE i \in 1..Len(byFile) :
                         \A j \in 1..Len(byFile) : ~SortsBefore(byFile[j].file, byFile[i].file)
         IN << byFile[least] >>
            \o SortedFiles(SelectSeq(byFile, LAMBDA f : f.file # byFile[least].file))

\* lines 112-123: the section written for one file
SectionText(f, devanagari) ==
    << "\n", "\n", "#", "#", " ", "C", "O", "M", "M", "E", "N", "T", "A", "R", "I", "E", "S", " ", "(" >> \o filenameToSectionTitle(f.file) \o << ")", "\n", "\n" >>
    \o (IF Truthy(FindNameCommentary(f.entries, devanagari))
        THEN << ">", " ", "*", "*" >> \o devanagari \o << "*", "*", " ", "emdash", " " >>
             \o FindNameCommentary(f.entries, devanagari) \o << "\n" >>
        ELSE << ">", " ", "[", "N", "e", "e", "d", "s", " ", "c", "o", "m", "m", "e", "n", "t", "a", "r", "y", "]", "\n" >>)

\* lines 105-125: commentariesSections
RECURSIVE SectionsText(_, _)
SectionsText(files, devanagari) ==
    IF files = << >> THEN << >>
    ELSE SectionText(Head(files), devanagari) \o SectionsText(Tail(files), devanagari)

\* lines 126-167: the template literal
NameTemplate(nameNumber, devanagari, iast, commentariesSections) ==
    Flatten(<< << "#", " ", "N", "A", "M", "E", " " >>,
        Decimal(nameNumber),
        << "\n", "\n", ">", " " >>,
        devanagari,
        << " ", " ", "\n", ">", " " >>,
        iast,
        << " ", " ", "\n", ">", " ", "ddanda", " " >>,
        Decimal(nameNumber),
        << " ", "ddanda", "\n", "\n", "-", "-", "-", "\n", "\n", "#", "#", " ", "R",
           "O", "O", "T", " ", "B", "R", "E", "A", "K", "D", "O", "W", "N", "\n", "\n",
           "|", " ", "C", "o", "m", "p", "o", "u", "n", "d", " ", "|", " ", "S", "a",
           "n", "d", "h", "i", " ", "|", " ", "C", "o", "m", "p", "o", "n", "e", "n",
           "t", "s", " ", "|", " ", "G", "r", "a", "m", "m", "a", "r", " ", "|", " ",
           "L", "i", "t", "e", "r", "a", "l", " ", "|", " ", "C", "o", "n", "t", "e",
           "x", "t", "u", "a", "l", " ", "|", "\n", "|", "-", "-", "-", "-", "-", "-",
           "-", "-", "-", "-", "|", "-", "-", "-", "-", "-", "-", "-", "-", "|", "-",
           "-", "-", "-", "-", "-", "-", "-", "-", "-", "-", "-", "|", "-", "-", "-",
           "-", "-", "-", "-", "-", "-", "|", "-", "-", "-", "-", "-", "-", "-", "-",
           "-", "|", "-", "-", "-", "-", "-", "-", "-", "-", "-", "-", "-", "-", "|",
           "\n", "|", " " >>,
        devanagari,
        << " ", "|", " ", "emdash", " ", "|", " ", "emdash", " ", "|", " ", "emdash",
           " ", "|", " ", "emdash", " ", "|", " ", "emdash", " ", "|", "\n", "\n", "-",
           "-", "-", "\n", "\n", "#", "#", " ", "E", "T", "Y", "M", "O", "L", "O", "G",
           "Y", " ", "(", "D", "E", "T", "A", "I", "L", "E", "D", ")", "\n", "\n", "#",
           "#", "#", " " >>,
        devanagari,
        << "\n", "-", " ", "*", "*", "B", "r", "e", "a", "k", "d", "o", "w", "n", "*",
           "*", ":", " ", "backtick" >>,
        devanagari,
        << "backtick", " ", " ", "\n", "-", " ", "*", "*", "R", "o", "o", "t", " ",
           "(", "D", "h", "a_macron", "t", "u", ")", "*", "*", ":", " ", "emdash", " ",
           " ", "\n", "-", " ", "*", "*", "U", "p", "a", "s", "a", "r", "g", "a", "(",
           "s", ")", "*", "*", ":", " ", "n", "o", "n", "e", " ", " ", "\n", "-", " ",
           "*", "*", "S", "u", "f", "f", "i", "x", "*", "*", ":", " ", "emdash", " ",
           " ", "\n", "-", " ", "*", "*", "S", "a", "n", "d", "h", "i", "*", "*", ":",
           " ", "emdash", " ", " ", "\n", "-", " ", "*", "*", "F", "o", "r", "m", "a",
           "t", "i", "o", "n", "*", "*", ":", " ", "emdash", " ", " ", "\n", "-", " ",
           "*", "*", "G", "r", "a", "m", "m", "a", "r", "*", "*", ":", " ", "emdash",
           " ", " ", "\n", "-", " ", "*", "*", "M", "e", "a", "n", "i", "n", "g", "*",
           "*", ":", " ", " ", "\n", " ", " ", "-", " ", "*", "*", "L", "i", "t", "e",
           "r", "a", "l", "*", "*", ":", " ", "\"", "\"", " ", " ", "\n", " ", " ",
           "-", " ", "*", "*", "C", "o", "n", "t", "e", "x", "t", "u", "a", "l", "*",
           "*", ":", " ", "\"", "\"", "\n", "\n", "-", "-", "-", "\n", "\n", "#", "#",
           " ", "C", "O", "M", "P", "O", "S", "I", "T", "I", "O", "N", "S", "\n", "\n",
           "T", "h", "i", "s", " ", "n", "a", "m", "e", " ", "[", "n", "e", "e", "d",
           "s", " ", "c", "o", "m", "p", "o", "s", "i", "t", "i", "o", "n", " ", "s",
           "u", "m", "m", "a", "r", "y", "]", ".", "\n", "\n", "*", "*", "W", "o", "r",
           "d", "-", "b", "y", "-", "w", "o", "r", "d", " ", "m", "e", "a", "n", "i",
           "n", "g", "*", "*", ":", "\n", "*", " ", "*", "*" >>,
        devanagari,
        << "*", "*", " ", "emdash", " ", "[", "n", "e", "e", "d", "s", " ", "m", "e",
           "a", "n", "i", "n", "g", "]" >>,
        commentariesSections,
        << "\n", "-", "-", "-", "\n", "\n" >> >>)

\* lines 104-168: generateNameEntry
generateNameEntry(nameNumber, devanagari, iast, byFile) ==
    NameTemplate(nameNumber, devanagari, iast,
                 SectionsText(SortedFiles(byFile), devanagari))

\* lines 61-64: getIAST, a placeholder that returns its argument
getIAST(devanagari) == devanagari

\* lines 209-220: the entries of the names, joined by an empty line; a name
\* is a record [number, devanagari]
MeaningsMarkdown(names, byFile) ==
    Join([i \in 1..Len(names) |->
             generateNameEntry(names[i].number, names[i].devanagari,
                               getIAST(names[i].devanagari), byFile)],
         << "\n", "\n" >>)

-----------------------------------------------------------------------------
(* fs.writeFile and what a write that rejects leaves in the file *)

\* the names of the code units of one byte in UTF-8 that are not written as
\* themselves; every other code unit with a name takes two or three bytes
SingleByteNames == {"backtick", "vtab"}

MultiByte(c) == Len(c) > 1 /\ c \notin SingleByteNames

\* fs.writeFile opens the file with flag 'w', which empties it, and writes
\* the text from its start; a write that rejects (EFBIG, ENOSPC) leaves the
\* bytes written so far.  Read as UTF-8 these are the first k code units of
\* the text, followed by U+FFFD when the last character is cut.
PartialTexts(text) ==
    UNION { { SubSeq(text, 1, k) }
            \cup (IF k < Len(text) /\ MultiByte(text[k + 1])
                  THEN { SubSeq(text, 1, k) \o << "ufffd" >> }
                  ELSE { })
            : k \in 0..Len(text) }

\* a file of which JSON.parse throws: a proper prefix of JSON.stringify(v) is
\* no JSON text (the text without its last line feed parses to v)
NotJson == << [text |-> "not JSON"] >>

-----------------------------------------------------------------------------
(* split-meanings-json.js and find-missing-commentaries.js *)

\* obj[key] = value on an object written as a sequence of [key, value] pairs
\* in insertion order
ObjectSet(obj, key, value) ==
    IF \E i \in 1..Len(obj) : obj[i].key = key
    THEN [i \in 1..Len(obj) |-> IF obj[i].key = key THEN [key |-> key, value |-> value]
                                ELSE obj[i]]
    ELSE Append(obj, [key |-> key, value |-> value])

\* split-meanings-json.js, lines 24-28: the entry of meanings of one item
MeaningOf(item) ==
    [nameNumber |-> item.nameNumber, name |-> item.name, rootBreakdown |-> item.rootBreakdown]

\* split-meanings-json.js, line 38: item.commentaries || {}
ItemCommentaries(item) ==
    IF "commentaries" \in DOMAIN item THEN item.commentaries ELSE << >>

\* split-meanings-json.js, lines 31-39: commentaries, from the items on
RECURSIVE SplitCommentaries(_, _)
SplitCommentaries(items, obj) ==
    IF items = << >> THEN obj
    ELSE IF Head(items).name.devanagari = << >>
         THEN SplitCommentaries(Tail(items), obj)
    ELSE SplitCommentaries(Tail(items),
             ObjectSet(obj, Head(items).name.devanagari, ItemCommentaries(Head(items))))

\* split-meanings-json.js, lines 17-28: what is written to meanings.json
SplitMeanings(items) == [i \in 1..Len(items) |-> MeaningOf(items[i])]

\* find-missing-commentaries.js, lines 18-34: hasCommentary; the entries of a
\* name are a function from the source keys
hasCommentary(entries) ==
    \E k \in DOMAIN entries :
        /\ "text" \in DOMAIN entries[k]
        /\ Len(Trim(entries[k].text)) > 0

\* find-missing-commentaries.js, lines 42-59: findCommentary of the audit,
\* << >> for null and the entries of the name in a tuple otherwise
FindNameEntries(devanagari, obj) ==
    IF devanagari = << >> THEN << >>
    ELSE IF \E i \in 1..Len(obj) : obj[i].key = devanagari
         THEN << obj[CHOOSE i \in 1..Len(obj) : obj[i].key = devanagari].value >>
    ELSE IF \E i \in 1..Len(obj) : Trim(obj[i].key) = Trim(devanagari)
         THEN << obj[CHOOSE i \in 1..Len(obj) :
                        /\ Trim(obj[i].key) = Trim(devanagari)
                        /\ \A j \in 1..(i - 1) : Trim(obj[j].key) # Trim(devanagari)].value >>
    ELSE << >>

MissingDevanagari ==
    << "(", "m", "i", "s", "s", "i", "n", "g", " ", "d", "e", "v", "a", "n", "a", "g", "a", "r", "i", ")" >>

\* find-missing-commentaries.js, lines 89-124: what the loop pushes to
\* missingCommentaries for one entry of meanings.json (nothing or one item)
MissingItem(meaning, obj) ==
    IF meaning.name.devanagari = << >>
    THEN << [nameNumber |-> meaning.nameNumber, devanagari |-> MissingDevanagari] >>
    ELSE IF FindNameEntries(meaning.name.devanagari, obj) = << >>
         THEN << [nameNumber |-> meaning.nameNumber, devanagari |-> meaning.name.devanagari] >>
    ELSE IF ~hasCommentary(FindNameEntries(meaning.name.devanagari, obj)[1])
         THEN << [nameNumber |-> meaning.nameNumber, devanagari |-> meaning.name.devanagari] >>
    ELSE << >>

\* find-missing-commentaries.js, lines 89-131: missingCommentaries, sorted
\* with the comparator (a.nameNumber ?? 0) - (b.nameNumber ?? 0)
MissingCommentaries(meanings, obj) ==
    SortNames(Flatten([i \in 1..Len(meanings) |-> MissingItem(meanings[i], obj)]))

-----------------------------------------------------------------------------
(* Bounds and input sets *)

MaxLineLength == 5      \* code units of a line drawn unit by unit
MaxPieces == 4          \* pieces of a line drawn piece by piece
MaxKeys == 2            \* keys of a source handed to findCommentary
MaxDocLines == 2        \* lines of a document
MaxBlocks == 4          \* blocks of a corpus
MaxNameNumber == 3      \* largest entry number of a corpus

SeqsUpTo(S, n) == UNION { [1..k -> S] : k \in 0..n }

\* lines without brackets: a letter, the dandas, white space, a digit
LineUnits == {"ka", DANDA, DDANDA, " ", "\t", "1"}

\* lines with bracket annotations, built from pieces
LinePieces ==
    { << "ka" >>,
      << " " >>,
      << " ", "[", "ga", "]" >>,
      << " ", "[", "ka", " ", "+", "ga", "]" >>,
      << " ", "[", "+", "]" >>,
      << "(", "5", ")" >>,
      << DANDA >>,
      << DDANDA, " ", "d1", " ", DDANDA >> }

\* lines on which a word is annotated twice: the word (with or without a
\* danda), a bracket group, the word again, another bracket group, and
\* possibly the word a third time
BracketGroups ==
    { << "[", "ga", "]" >>,
      << "[", "ka", " ", "+", "ga", "]" >>,
      << "[", "+", "]" >> }

TwiceAnnotatedLines ==
    { w1 \o << " " >> \o g1 \o << " " >> \o w2 \o << " " >> \o g2 \o rest :
        w1 \in { << "ka" >>, << "ka", DANDA >> },
        w2 \in { << "ka" >>, << "ka", DANDA >> },
        g1 \in BracketGroups, g2 \in BracketGroups,
        rest \in { << >>, << " ", "ka" >> } }

\* lines on which an annotated word ends in dandas and double dandas
DandaAnnotatedLines ==
    { << "ka" >> \o trail \o << " " >> \o g \o rest :
        trail \in SeqsUpTo({DANDA, DDANDA}, 2),
        g \in BracketGroups,
        rest \in { << >>, << " ", "ka" >> } }

TokenizerLines ==
    SeqsUpTo(LineUnits, MaxLineLength)
        \cup { Flatten(ps) : ps \in SeqsUpTo(LinePieces, MaxPieces) }
        \cup TwiceAnnotatedLines
        \cup DandaAnnotatedLines

\* the words of the examples
Sarvaruna == << "sa", "ra", "virama", "va", "sign_aa", "ra", "sign_u", "nna" >>
Anavadyangi == << VOWEL_A, "na", "va", "da", "virama", "ya", "sign_aa", "nga", "virama",
                  "ga", "sign_ii" >>
SarvarunaAnavadyangi ==
    Sarvaruna \o << "sign_aa", AVAGRAHA >> \o Tail(Anavadyangi)
ChitisTatpada == << "ca", "sign_i", "ta", "sign_i", "sa", "virama", "ta", "ta", "virama",
                    "pa", "da" >>
Lakshyartha == << "la", "ka", "virama", "ssa", "virama", "ya", "sign_aa", "ra", "virama",
                  "tha", "sign_aa" >>
Shrimata == << "sha", "virama", "ra", "sign_ii", "ma", "sign_aa", "ta", "sign_aa" >>
Namah == << "na", "ma", "visarga" >>

ResolverNames ==
    { OmSign, OmSyllable,
      SarvarunaAnavadyangi,
      ChitisTatpada \o << "-" >> \o Lakshyartha,
      << "ka", AVAGRAHA, "ga" >>,
      << "ka", AVAGRAHA >>,
      << "ka", AVAGRAHA, "ga", AVAGRAHA, "ka" >>,
      << "-", "ka", "-", "ga" >>,
      << "ka", "-", "ga" >> }

ResolverKeys ==
    { OmSign, Sarvaruna, Anavadyangi, ChitisTatpada \o Lakshyartha,
      << "ka" >>, << "ga" >>, << "ka", VOWEL_A >>, << "ka", VOWEL_A, "ga" >>,
      << "ka", "-", "ga" >>, << "ka", "ga", "-" >>, << "ka", "ga" >> }

Texts == { << "A" >>, << "B" >> }

\* sources: at most n [key, text] pairs with distinct keys, in insertion order
SourcesOver(keys, texts, n) ==
    { src \in SeqsUpTo([key : keys, text : texts], n) :
        \A i, j \in 1..Len(src) : i # j => src[i].key # src[j].key }

ResolverSources == SourcesOver(ResolverKeys, Texts, MaxKeys)

\* the lines of a document
ScenarioLine == Shrimata \o << " " >> \o Namah \o << " ", DDANDA, " ", "1", " ", DDANDA >>
BreakdownLine ==
    << "ka", "ga", " ", "[", "ka", " ", "+", " ", "ga", " ", "+", " ", "ta", "]",
       "(", "5", "5", ")", " ", "ma", DANDA >>
OmLine == OmSign \o << " " >> \o << "ka", "-", "ga" >>
ConcludingLine ==
    ConcludingWords[1] \o << " " >> \o ConcludingWords[2] \o << " " >>
    \o ConcludingWords[3] \o << " " >> \o ConcludingWords[4] \o << " " >>
    \o ConcludingWords[5] \o << " " >> \o ConcludingWords[6] \o << " ", DDANDA >>

\* the colophon with two spaces behind its first word
ConcludingLineWide ==
    ConcludingWords[1] \o << " ", " " >> \o ConcludingWords[2] \o << " " >>
    \o ConcludingWords[3] \o << " " >> \o ConcludingWords[4] \o << " " >>
    \o ConcludingWords[5] \o << " " >> \o ConcludingWords[6] \o << " ", DDANDA >>

DocumentLines ==
    { << >>, ScenarioLine, BreakdownLine, OmLine, ConcludingLine, ConcludingLineWide }

\* the names of the sources, in the order of the keys of the commentaries prop
SourceNames == << "Bhaskaraya", "V. Ravi", "Sanskrit Documents" >>

Entry(k, t) == [key |-> k, text |-> t]

\* the dictionaries a source may hold
DocumentSources ==
    { << >>,
      << Entry(Shrimata, << "M", "1" >>), Entry(Namah, << "M", "2" >>) >>,
      << Entry(<< "ga" >>, << "B" >>), Entry(<< "ka", "ga" >>, << "A" >>) >>,
      << Entry(<< "ta" >>, << "B" >>), Entry(<< "ka" >>, << "A" >>), Entry(<< "ma" >>, << "A" >>) >> }

\* the commentaries prop: the sources present, in the order of SourceNames
RECURSIVE SourcesFrom(_, _, _)
SourcesFrom(present, choice, i) ==
    IF i > Len(SourceNames) THEN << >>
    ELSE (IF i \in present
          THEN << [name |-> SourceNames[i], source |-> choice[i]] >>
          ELSE << >>)
         \o SourcesFrom(present, choice, i + 1)

\* the dictionaries drawn for each source of SourceNames
SourceDictionaries ==
    << { << >>,
         << Entry(Shrimata, << "M", "1" >>), Entry(Namah, << "M", "2" >>) >> },
       { << Entry(<< "ga" >>, << "B" >>), Entry(<< "ka", "ga" >>, << "A" >>) >>,
         << Entry(<< "ta" >>, << "B" >>), Entry(<< "ka" >>, << "A" >>),
            Entry(<< "ma" >>, << "A" >>) >> },
       { << Entry(<< "ta" >>, << "B" >>), Entry(<< "ka" >>, << "A" >>),
            Entry(<< "ma" >>, << "A" >>) >> } >>

CommentariesProps ==
    { SourcesFrom(present, choice, 1) :
        present \in SUBSET (1..Len(SourceNames)),
        choice \in { c \in [1..Len(SourceNames) -> DocumentSources] :
                        \A i \in 1..Len(SourceNames) : c[i] \in SourceDictionaries[i] } }

\* the nameNumber of a parsed block: null or a number
NameNumbers == {NoNumber} \cup 0..MaxNameNumber

-----------------------------------------------------------------------------
(* The blocks given to parseNameBlock *)

MaxMarkers == 2         \* verse-marker lines of a name block

HeaderLine(n) == << "#", " ", "N", "A", "M", "E", " " >> \o Decimal(n)
\* a header that declares no number
BadHeaderLine == << "#", " ", "N", "A", "M", "E", " ", "x" >>
HeaderLines == { HeaderLine(n) : n \in 1..MaxNameNumber } \cup { BadHeaderLine }

DevanagariLine == << ">", " ", "ka", "ga" >>
IastLine == << ">", " ", "k", "a", "g", "a" >>
MarkerLine(m) == << ">", " ", "ddanda", " " >> \o Decimal(m) \o << " ", "ddanda" >>
RuleLine == << "-", "-", "-" >>

\* the name lines with the marker lines of the numbers ms
NameLinesWith(ms) ==
    << << >>, DevanagariLine, IastLine >>
    \o [i \in 1..Len(ms) |-> MarkerLine(ms[i])]
    \o << << >>, RuleLine, << >> >>

RootHeaderLine == << "#", "#", " ", "R", "O", "O", "T", " ", "B", "R", "E", "A", "K", "D", "O", "W", "N" >>
TableHeaderLine == << "|", " ", "C", "o", "m", "p", "o", "u", "n", "d", " ", "|", " ", "S", "a", "n", "d", "h", "i", " ", "|", " ", "C", "o", "m", "p", "o", "n", "e", "n", "t", "s", " ", "|", " ", "G", "r", "a", "m", "m", "a", "r", " ", "|", " ", "L", "i", "t", "e", "r", "a", "l", " ", "|", " ", "C", "o", "n", "t", "e", "x", "t", "u", "a", "l", " ", "|" >>
TableRuleLine == << "|", "-", "-", "-", "|", "-", "-", "-", "|", "-", "-", "-", "|", "-", "-", "-", "|", "-", "-", "-", "|", "-", "-", "-", "|" >>

\* the rows of a table: the line and the cells it holds
TableRows ==
    << [line |-> << "|", " ", "ka", "ga", " ", "|", " ", "s", "1", " ", "|", " ", "ka", " ", "+", " ", "ga", " ", "|", " ", "g", "1", " ", "|", " ", "l", "1", " ", "|", " ", "c", "1", " ", "|" >>,
        compound |-> << "ka", "ga" >>, sandhi |-> << "s", "1" >>, components |-> << << "ka" >>, << "ga" >> >>,
        grammar |-> << "g", "1" >>, literal |-> << "l", "1" >>, contextual |-> << "c", "1" >>],
       [line |-> << "|", " ", "ka", "ga", " ", "|", " ", "emdash", " ", "|", " ", "ka", " ", "+", " ", "ga", " ", "|", " ", "g", "1", " ", "|", " ", "l", "1", " ", "|", " ", "c", "1", " ", "|" >>,
        compound |-> << "ka", "ga" >>, sandhi |-> Null, components |-> << << "ka" >>, << "ga" >> >>,
        grammar |-> << "g", "1" >>, literal |-> << "l", "1" >>, contextual |-> << "c", "1" >>],
       [line |-> << "|", " ", "ta", "ma", " ", "|", " ", "s", "3", " ", "|", " ", "ta", " ", "+", " ", "ma", " ", "|", " ", "g", "3", " ", "|", " ", "l", "3", " ", "|", " ", "c", "3", " ", "|" >>,
        compound |-> << "ta", "ma" >>, sandhi |-> << "s", "3" >>, components |-> << << "ta" >>, << "ma" >> >>,
        grammar |-> << "g", "3" >>, literal |-> << "l", "3" >>, contextual |-> << "c", "3" >>] >>

\* the ROOT BREAKDOWN section with the rows ks of TableRows
RootSection(ks) ==
    << RootHeaderLine, << >>, TableHeaderLine, TableRuleLine >>
    \o [i \in 1..Len(ks) |-> TableRows[ks[i]].line]
    \o << << >>, RuleLine, << >> >>

EtymologyHeaderLine == << "#", "#", " ", "E", "T", "Y", "M", "O", "L", "O", "G", "Y", " ", "(", "D", "E", "T", "A", "I", "L", "E", "D", ")" >>
\* the heading of a subsection as the extractor reads it, and as the
\* generated template writes it
BoldHeadingLine == << "#", "#", "#", " ", "*", "*", "ka", "ga", "*", "*" >>
PlainHeadingLine == << "#", "#", "#", " ", "ka", "ga" >>

\* the fields of a subsection, in the order of the template: the line and
\* the value the prose gives
ProseFields ==
    << [field |-> "breakdown", line |-> << "*", "*", "B", "r", "e", "a", "k", "d", "o", "w", "n", "*", "*", ":", " ", "backtick", "ka", " ", "+", " ", "ta", "backtick" >>,
        value |-> << << "ka" >>, << "ta" >> >>],
       [field |-> "sandhi", line |-> << "-", " ", "*", "*", "S", "a", "n", "d", "h", "i", "*", "*", ":", " ", "s", "2" >>, value |-> << "s", "2" >>],
       [field |-> "grammar", line |-> << "-", " ", "*", "*", "G", "r", "a", "m", "m", "a", "r", "*", "*", ":", " ", "g", "2" >>, value |-> << "g", "2" >>],
       [field |-> "literal", line |-> << "-", " ", "*", "*", "L", "i", "t", "e", "r", "a", "l", "*", "*", ":", " ", "\"", "l", "2", "\"" >>, value |-> << "l", "2" >>],
       [field |-> "contextual", line |-> << "-", " ", "*", "*", "C", "o", "n", "t", "e", "x", "t", "u", "a", "l", "*", "*", ":", " ", "\"", "c", "2", "\"" >>, value |-> << "c", "2" >>] >>

\* the lines of the fields fs (a set of indices of ProseFields), in order
RECURSIVE FieldLinesFrom(_, _)
FieldLinesFrom(fs, i) ==
    IF i > Len(ProseFields) THEN << >>
    ELSE (IF i \in fs THEN << ProseFields[i].line >> ELSE << >>)
         \o FieldLinesFrom(fs, i + 1)

EtymologySection(heading, fs) ==
    << EtymologyHeaderLine, << >>, heading >> \o FieldLinesFrom(fs, 1)
    \o << << >>, RuleLine, << >> >>

CompositionsHeaderLine == << "#", "#", " ", "C", "O", "M", "P", "O", "S", "I", "T", "I", "O", "N", "S" >>
CompositionsSection ==
    << CompositionsHeaderLine, << >>, << "s", "u", "m", "1" >>, << >>, << "*", "*", "W", "o", "r", "d", "-", "b", "y", "-", "w", "o", "r", "d", " ", "m", "e", "a", "n", "i", "n", "g", "*", "*" >>,
       << "*", " ", "*", "*", "ka", "ga", "*", "*", " ", "emdash", " ", "m", "1" >>, << >>, RuleLine, << >> >>

\* the commentary sections, in the order of the template: the header line,
\* the blockquote lines, the key of the entry and the text of the lines
CommentarySections ==
    << [header |-> << "#", "#", " ", "C", "O", "M", "M", "E", "N", "T", "A", "R", "Y", " ", "(", "B", "H", "A_macron", "S", "K", "A", "R", "A", "R", "A_macron", "Y", "A", ")" >>, quotes |-> << << ">", " ", "b", "1" >>, << ">", " ", "b", "2" >> >>,
        key |-> << "b", "h", "a", "s", "k", "a", "r", "a", "r", "a", "y", "a" >>, text |-> << "b", "1" >> \o << "\n" >> \o << "b", "2" >>],
       [header |-> << "#", "#", " ", "C", "O", "M", "M", "E", "N", "T", "A", "R", "Y", " ", "(", "V", ".", " ", "R", "A", "V", "I", ")" >>, quotes |-> << << ">", " ", "v", "1" >> >>,
        key |-> << "v", "R", "a", "v", "i" >>, text |-> << "v", "1" >>],
       [header |-> << "#", "#", " ", "C", "O", "M", "M", "E", "N", "T", "A", "R", "Y", " ", "(", "X", ")" >>, quotes |-> << << ">", " ", "x", "1" >> >>,
        key |-> << "x" >>, text |-> << "x", "1" >>],
       [header |-> << "#", "#", " ", "C", "O", "M", "M", "E", "N", "T", "A", "R", "I", "E", "S", " ", "(", "Y", " ", "Z", ")" >>, quotes |-> << << ">", " ", "*", "*", "ka", "ga", "*", "*", " ", "emdash", " ", "y", "1" >> >>,
        key |-> << "y", "z" >>, text |-> << "y", "1" >>],
       [header |-> << "#", "#", " ", "C", "O", "M", "M", "E", "N", "T", "A", "R", "I", "E", "S", " ", "(", "W", ")" >>, quotes |-> << << ">", " ", "w", "1" >> >>,
        key |-> << "w" >>, text |-> << "w", "1" >>] >>

\* the sections cs (a set of indices of CommentarySections), in order
RECURSIVE CommentaryLinesFrom(_, _)
CommentaryLinesFrom(cs, i) ==
    IF i > Len(CommentarySections) THEN << >>
    ELSE (IF i \in cs
          THEN << CommentarySections[i].header, << >> >> \o CommentarySections[i].quotes
               \o << << >>, RuleLine, << >> >>
          ELSE << >>)
         \o CommentaryLinesFrom(cs, i + 1)

\* blocks on which the number of the entry is resolved
NumberBlocks ==
    { << header >> \o NameLinesWith(ms) \o tail :
        header \in HeaderLines,
        ms \in SeqsUpTo(1..MaxNameNumber, MaxMarkers),
        tail \in { << >>, RootSection(<< 1 >>), RootSection(<< 1 >>) \o << MarkerLine(1) >> } }

\* blocks with a table row and a prose subsection of its compound
EtymologyBlocks ==
    { << HeaderLine(1) >> \o NameLinesWith(<< 1 >>) \o RootSection(<< k >>)
      \o EtymologySection(heading, fs) :
        k \in {1, 2},
        heading \in { BoldHeadingLine, PlainHeadingLine },
        fs \in SUBSET (1..Len(ProseFields)) }

\* blocks with and without each section
SectionBlocks ==
    { << HeaderLine(1) >> \o NameLinesWith(<< 1 >>) \o root \o etymology \o compositions
      \o CommentaryLinesFrom(cs, 1) :
        root \in { << >>, RootSection(<< 1 >>), RootSection(<< 1, 3 >>) },
        etymology \in { << >>, EtymologySection(BoldHeadingLine, {3}) },
        compositions \in { << >>, CompositionsSection },
        cs \in SUBSET (1..Len(CommentarySections)) }

\* blocks with a marker line inside a commentary section, with and without
\* name lines and table
QuotedMarkerBlocks ==
    { << HeaderLine(1) >> \o names \o root
      \o << CommentarySections[i].header, << >> >> \o CommentarySections[i].quotes
      \o << MarkerLine(2), << >> >> :
        names \in { NameLinesWith(<< >>), NameLinesWith(<< 1 >>), << << >> >> },
        root \in { << >>, RootSection(<< 1 >>) },
        i \in {1, 4} }

NameBlocks == NumberBlocks \cup EtymologyBlocks \cup SectionBlocks \cup QuotedMarkerBlocks

-----------------------------------------------------------------------------
(* The corpora given to main *)

MaxCorpusLines == 3     \* lines of a corpus

\* the lines of a corpus: headers, name lines, an empty line
CorpusLines == { HeaderLine(1), HeaderLine(2), DevanagariLine, IastLine, << >> }

\* the text of the file: the lines joined by line feeds
Corpora == { Join(ls, << "\n" >>) : ls \in SeqsUpTo(CorpusLines, MaxCorpusLines) }

-----------------------------------------------------------------------------
(* The documents of the popovers *)

MaxPopoverLines == 3    \* lines of a document with popovers

PopoverLines == { ScenarioLine, BreakdownLine, ConcludingLine }

\* both sources, with entries for the words of the two verse lines
PopoverProps ==
    { << >>,
      << [name |-> SourceNames[1],
          source |-> << Entry(Shrimata, << "M", "1" >>), Entry(Namah, << "M", "2" >>) >>],
         [name |-> SourceNames[2],
          source |-> << Entry(<< "ta" >>, << "B" >>), Entry(<< "ka" >>, << "A" >>),
                        Entry(<< "ma" >>, << "A" >>) >>] >> }

-----------------------------------------------------------------------------
(* The exit statuses of the scripts of the pipeline *)

MaxExitStatus == 3      \* largest exit status of a script

-----------------------------------------------------------------------------
(* The names and the commentary files given to convert-to-names.js *)

MaxNames == 2           \* names of sanskrit.txt

ScriptNames == { << "ka", "ga" >>, << "ta", "ma" >> }

\* the names as extractNamesFromSanskrit numbers them
NameLists ==
    { [i \in 1..Len(ws) |-> [number |-> i, devanagari |-> ws[i]]] :
        ws \in SeqsUpTo(ScriptNames, MaxNames) \ { << >> } }

CommentaryFiles ==
    { << "s", "a", "n", "s", "k", "r", "i", "t", "d", "o", "c", "u", "m", "e", "n", "t", "s",
         ".", "j", "s", "o", "n" >>,
      << "v", "-", "r", "a", "v", "i", ".", "j", "s", "o", "n" >> }

\* what a commentary file holds: main keeps the files with at least one key
FileEntries ==
    { << Entry(<< "ka", "ga" >>, << "t", "1" >>) >>,
      << Entry(<< "ta", "ma" >>, << "t", "2" >>) >>,
      << Entry(<< "ka", "ga" >>, << "t", "1" >>), Entry(<< "ta", "ma" >>, << "t", "2" >>) >>,
      << Entry(<< "ma" >>, << "t", "3" >>) >> }

\* commentariesByFile: the files in the order they were read
CommentariesByFile ==
    { << >> }
    \cup { << [file |-> f, entries |-> e] >> : f \in CommentaryFiles, e \in FileEntries }
    \cup { << [file |-> fs[1], entries |-> e1], [file |-> fs[2], entries |-> e2] >> :
             fs \in { gs \in CommentaryFiles \X CommentaryFiles : gs[1] # gs[2] },
             e1 \in FileEntries, e2 \in FileEntries }

\* the files of a run of the pipeline: one name in sanskrit.txt, at most one
\* commentary file
PipelineNameLists == { names \in NameLists : Len(names) = 1 }

PipelineFiles == { byFile \in CommentariesByFile : Len(byFile) <= 1 }

-----------------------------------------------------------------------------
(* Specifications *)

TokIdle ==
    /\ line = << >> /\ processedLine = << >> /\ breakdowns = << >>
    /\ result = << >> /\ reprocessedLine = << >> /\ rebreakdowns = << >>
ResIdle == name = << >> /\ commentarySource = << >> /\ found = Null
AnnIdle ==
    /\ sanskritText = << >> /\ commentaries = << >> /\ wordToCommentaryMap = << >>
    /\ prevCommentaries = << >> /\ prevMap = << >>
    /\ regularLines = << >> /\ concludingLine = Null /\ verseList = << >>
ExtIdle == blocks = << >> /\ ordered = << >> /\ nameBlock = << >> /\ nameEntry = << >>
CorpusIdle == raw = << >>
PopIdle == openWordId = << >> /\ shouldScroll = FALSE /\ scrolledTo = << >> /\ event = NoEvent /\ nextRun = << >>
PipeIdle == started = << >> /\ statuses = << >> /\ log = << >> /\ exitCode = << >>
ScriptsIdle ==
    /\ nameList = << >> /\ commentariesByFile = << >> /\ meaningsMd = << >>
    /\ meaningsJson = << >> /\ commentariesJson = << >> /\ pendingCommentaries = << >>
    /\ report = << >>

(* the tokenizer: parseWordsFromLine on a line, then the pre-pass again on
   the cleaned line *)
TokInit ==
    /\ pc = "line"
    /\ line \in TokenizerLines
    /\ processedLine = << >> /\ breakdowns = << >> /\ result = << >>
    /\ reprocessedLine = << >> /\ rebreakdowns = << >>
    /\ ResIdle /\ AnnIdle /\ ExtIdle /\ CorpusIdle /\ PopIdle /\ PipeIdle /\ ScriptsIdle

ParseLine ==
    /\ pc = "line"
    /\ processedLine' = ExtractBreakdowns(line).processedLine
    /\ breakdowns' = ExtractBreakdowns(line).breakdowns
    /\ result' = parseWordsFromLine(line)
    /\ pc' = "parsed"
    /\ UNCHANGED << line, reprocessedLine, rebreakdowns, resVars, annVars, extVars, corpusVars, popVars, pipeVars, scriptVars >>

ExtractAgain ==
    /\ pc = "parsed"
    /\ reprocessedLine' = ExtractBreakdowns(processedLine).processedLine
    /\ rebreakdowns' = ExtractBreakdowns(processedLine).breakdowns
    /\ pc' = "extracted again"
    /\ UNCHANGED << line, processedLine, breakdowns, result, resVars, annVars, extVars, corpusVars, popVars, pipeVars, scriptVars >>

TokNext == ParseLine \/ ExtractAgain

SpecTokenizer == TokInit /\ [][TokNext]_vars

(* the resolver: findCommentary on a word and a source *)
ResInit ==
    /\ pc = "word"
    /\ name \in ResolverNames
    /\ commentarySource \in ResolverSources
    /\ found = Null
    /\ TokIdle /\ AnnIdle /\ ExtIdle /\ CorpusIdle /\ PopIdle /\ PipeIdle /\ ScriptsIdle

Resolve ==
    /\ pc = "word"
    /\ found' = findCommentary(name, commentarySource)
    /\ pc' = "resolved"
    /\ UNCHANGED << name, commentarySource, tokVars, annVars, extVars, corpusVars, popVars, pipeVars, scriptVars >>

ResNext == Resolve

SpecResolver == ResInit /\ [][ResNext]_vars

(* the annotator: VersesDisplay renders a document with its sources, and
   renders again when the commentaries prop changes in one source *)
AnnInit ==
    /\ pc = "props"
    /\ sanskritText \in SeqsUpTo(DocumentLines, MaxDocLines)
    /\ commentaries \in CommentariesProps
    /\ wordToCommentaryMap = << >>
    /\ prevCommentaries = << >> /\ prevMap = << >>
    /\ regularLines = << >> /\ concludingLine = Null /\ verseList = << >>
    /\ TokIdle /\ ResIdle /\ ExtIdle /\ CorpusIdle /\ PopIdle /\ PipeIdle /\ ScriptsIdle

Render ==
    /\ pc = "props"
    /\ wordToCommentaryMap' = BuildWordToCommentaryMap(sanskritText, commentaries)
    /\ regularLines' = RegularLines(sanskritText)
    /\ concludingLine' = LastConcludingLine(sanskritText)
    /\ verseList' = VerseList(RegularLines(sanskritText),
                              BuildWordToCommentaryMap(sanskritText, commentaries))
    /\ pc' = "rendered"
    /\ UNCHANGED << sanskritText, commentaries, prevCommentaries, prevMap,
                    tokVars, resVars, extVars, corpusVars, popVars, pipeVars, scriptVars >>

\* commentaries[sourceName]: the pair of that source, when it is present
SourceOf(sources, sourceName) == SelectSeq(sources, LAMBDA e : e.name = sourceName)

\* the commentaries prop changes in one source (replaced, emptied, removed
\* or added) and the component renders again; a later change reaches no
\* state that a first change does not reach
RenderAgain ==
    /\ pc = "rendered"
    /\ \E new \in CommentariesProps :
        /\ new # commentaries
        /\ \E n \in 1..Len(SourceNames) :
              \A m \in 1..Len(SourceNames) :
                  m # n => SourceOf(new, SourceNames[m]) = SourceOf(commentaries, SourceNames[m])
        /\ commentaries' = new
        /\ wordToCommentaryMap' = BuildWordToCommentaryMap(sanskritText, new)
        /\ verseList' = VerseList(RegularLines(sanskritText),
                                  BuildWordToCommentaryMap(sanskritText, new))
    /\ prevCommentaries' = commentaries
    /\ prevMap' = wordToCommentaryMap
    /\ regularLines' = RegularLines(sanskritText)
    /\ concludingLine' = LastConcludingLine(sanskritText)
    /\ pc' = "rendered again"
    /\ UNCHANGED << sanskritText, tokVars, resVars, extVars, corpusVars, popVars, pipeVars, scriptVars >>

AnnNext == Render \/ RenderAgain

SpecAnnotator == AnnInit /\ [][AnnNext]_vars

(* the extractor: main orders the parsed blocks *)
ExtInit ==
    /\ pc = "blocks"
    /\ \E numbers \in SeqsUpTo(NameNumbers, MaxBlocks) :
          blocks = [i \in 1..Len(numbers) |-> [block |-> i, nameNumber |-> numbers[i]]]
    /\ ordered = << >>
    /\ nameBlock = << >> /\ nameEntry = << >>
    /\ TokIdle /\ ResIdle /\ AnnIdle /\ CorpusIdle /\ PopIdle /\ PipeIdle /\ ScriptsIdle

ExtractCorpus ==
    /\ pc = "blocks"
    /\ ordered' = SortNames(blocks)
    /\ pc' = "written"
    /\ UNCHANGED << blocks, nameBlock, nameEntry, tokVars, resVars, annVars, corpusVars, popVars, pipeVars, scriptVars >>

ExtNext == ExtractCorpus

SpecExtractor == ExtInit /\ [][ExtNext]_vars

(* the extractor: parseNameBlock on one block *)
BlockInit ==
    /\ pc = "block"
    /\ nameBlock \in NameBlocks
    /\ nameEntry = << >>
    /\ blocks = << >> /\ ordered = << >>
    /\ TokIdle /\ ResIdle /\ AnnIdle /\ CorpusIdle /\ PopIdle /\ PipeIdle /\ ScriptsIdle

ParseBlock ==
    /\ pc = "block"
    /\ nameEntry' = << parseNameBlock(nameBlock) >>
    /\ pc' = "parsed"
    /\ UNCHANGED << nameBlock, blocks, ordered, tokVars, resVars, annVars, corpusVars, popVars, pipeVars, scriptVars >>

BlockNext == ParseBlock

SpecBlock == BlockInit /\ [][BlockNext]_vars

(* the extractor: main on the text of a corpus *)
CorpusInit ==
    /\ pc = "corpus"
    /\ raw \in Corpora
    /\ blocks = << >> /\ ordered = << >>
    /\ nameBlock = << >> /\ nameEntry = << >>
    /\ TokIdle /\ ResIdle /\ AnnIdle /\ PopIdle /\ PipeIdle /\ ScriptsIdle

\* lines 697-738: the blocks of the text and the array that is written
SplitAndParse ==
    /\ pc = "corpus"
    /\ blocks' = SplitBlocks(SplitOn(raw, "\n"))
    /\ ordered' = SortNames(ParsedBlocks(SplitBlocks(SplitOn(raw, "\n"))))
    /\ pc' = "extracted"
    /\ UNCHANGED << raw, nameBlock, nameEntry, tokVars, resVars, annVars, popVars, pipeVars, scriptVars >>

CorpusNext == SplitAndParse

SpecCorpus == CorpusInit /\ [][CorpusNext]_vars

(* the popovers: VersesDisplay has rendered a document; words are opened and
   closed and the next word is asked for *)
PopInit ==
    /\ pc = "popovers"
    /\ sanskritText \in SeqsUpTo(PopoverLines, MaxPopoverLines)
    /\ commentaries \in PopoverProps
    /\ wordToCommentaryMap = BuildWordToCommentaryMap(sanskritText, commentaries)
    /\ regularLines = RegularLines(sanskritText)
    /\ concludingLine = LastConcludingLine(sanskritText)
    /\ verseList = VerseList(regularLines, wordToCommentaryMap)
    /\ prevCommentaries = << >> /\ prevMap = << >>
    /\ openWordId = NoWordId /\ shouldScroll = FALSE
    /\ scrolledTo = NoWordId /\ event = NoEvent /\ nextRun = << >>
    /\ TokIdle /\ ResIdle /\ ExtIdle /\ CorpusIdle /\ PipeIdle /\ ScriptsIdle

\* onOpenChange of the WordPopover of a rendered word
OpenChange ==
    /\ pc = "popovers"
    /\ \E wordId \in PopoverIds(verseList), open \in BOOLEAN :
        /\ handleWordOpenChange(wordId, open)
        /\ event' = [kind |-> IF open THEN "open" ELSE "close", wordId |-> wordId,
                     from |-> openWordId]
    /\ scrolledTo' = ScrollEffect(verseList, openWordId, shouldScroll, openWordId', shouldScroll')
    /\ nextRun' = << >>
    /\ UNCHANGED << pc, annVars, tokVars, resVars, extVars, corpusVars, pipeVars, scriptVars >>

\* onNext: a click on the content of the popover of the open word
NextWord ==
    /\ pc = "popovers"
    /\ openWordId \in PopoverIds(verseList)
    /\ handleNextWord
    /\ event' = [kind |-> "next", wordId |-> openWordId', from |-> openWordId]
    /\ scrolledTo' = ScrollEffect(verseList, openWordId, shouldScroll, openWordId', shouldScroll')
    /\ nextRun' = IF nextRun = << >> \/ Len(nextRun) > Len(wordToCommentaryMap)
                  THEN << openWordId, openWordId' >>
                  ELSE Append(nextRun, openWordId')
    /\ UNCHANGED << pc, annVars, tokVars, resVars, extVars, corpusVars, pipeVars, scriptVars >>

PopNext == OpenChange \/ NextWord

SpecPopover == PopInit /\ [][PopNext]_vars

(* the pipeline: pipeline.js runs its scripts, each of which exits with a
   status; execSync throws when the status is not 0 *)
PipeInit ==
    /\ pc = "pipeline"
    /\ started = << >> /\ statuses = << >> /\ log = << >> /\ exitCode = << >>
    /\ nameList \in PipelineNameLists
    /\ commentariesByFile \in PipelineFiles
    /\ meaningsMd = << >> /\ meaningsJson = << >> /\ commentariesJson = << >>
    /\ pendingCommentaries = << >> /\ report = << >>
    /\ TokIdle /\ ResIdle /\ AnnIdle /\ ExtIdle /\ CorpusIdle /\ PopIdle

\* lines 9 and 30-39: the pipeline starts and runs its first script
StartPipeline ==
    /\ pc = "pipeline"
    /\ RunScript(1, << Message("Starting pipeline", "") >>)
    /\ UNCHANGED << statuses, tokVars, resVars, annVars, extVars, corpusVars, popVars, scriptVars >>

\* what script i has written to the files of the model when it exits.  The
\* scripts are known by what they read and write.  The first one writes the
\* files of src/commentaries-json from the texts of src/commentaries, which
\* are inputs: the files that convert-to-names.js loads afterwards are any
\* files (a file that was written in part is no JSON and is not loaded).
\* The second one writes verses.md from sanskrit.txt, neither of which is
\* changed for the other scripts.  The third one is convert-to-names.js and
\* writes meanings.md.  The fourth one is the extractor, which reads
\* meanings.md and writes meanings.json.
ScriptWrites(i, files, md, json) ==
    /\ commentariesByFile' = IF i = 1 THEN files ELSE commentariesByFile
    /\ meaningsMd' = IF i = 3 THEN md ELSE meaningsMd
    /\ meaningsJson' = IF i = 4 THEN json ELSE meaningsJson

\* convert-to-names.js, main: what meanings.md holds when the script has
\* exited with status and output is the text it writes.  The write (line
\* 220) is the last step that can fail: with status 0 the file holds the
\* text; a run that fails has failed before the write (the file is as it
\* was) or in it (the file holds what was written of the text).
MeaningsMdAfter(status, old, output) ==
    IF status = 0 THEN { output } ELSE { old } \cup PartialTexts(output)

\* what a file holds when the step that was to write value has failed: what
\* it held (readFile, JSON.parse or the opening of the file has failed), no
\* JSON text (the write was cut), or value (all but the end was written)
AfterFailedWrite(old, value) == { old, NotJson, value }

\* lines 36-52: the script that is running exits.  output is the text
\* convert-to-names.js writes, extracted the array the extractor writes
\* (its writeFile is the last step of main; main().catch sets the status 1)
ScriptExits ==
    /\ pc = "running"
    /\ \E output \in (IF Len(started) = 3
                       THEN { MeaningsMarkdown(nameList, commentariesByFile) }
                       ELSE { << >> }) :
       \E extracted \in (IF Len(started) = 4
                          THEN { SortNames(ParsedBlocks(SplitBlocks(SplitOn(meaningsMd, "\n")))) }
                          ELSE { << >> }) :
       \E status \in 0..MaxExitStatus :
       \E files \in (IF Len(started) = 1 THEN PipelineFiles ELSE { commentariesByFile }) :
       \E md \in (IF Len(started) = 3 THEN MeaningsMdAfter(status, meaningsMd, output)
                   ELSE { meaningsMd }) :
       \E json \in (IF Len(started) # 4 THEN { meaningsJson }
                     ELSE IF status = 0 THEN { extracted }
                     ELSE AfterFailedWrite(meaningsJson, extracted)) :
        /\ statuses' = Append(statuses, status)
        /\ IF status = 0 THEN AfterSuccess(Len(started)) ELSE AfterFailure(Len(started))
        /\ ScriptWrites(Len(started), files, md, json)
    /\ UNCHANGED << nameList, commentariesJson, pendingCommentaries, report,
                    tokVars, resVars, annVars, extVars, corpusVars, popVars >>

PipeNext == StartPipeline \/ ScriptExits

SpecPipeline == PipeInit /\ [][PipeNext]_vars

(* the scripts: convert-to-names.js writes meanings.md, the extractor writes
   meanings.json, split-meanings-json.js runs once or twice, and
   find-missing-commentaries.js writes its report *)
ScriptsInit ==
    /\ pc = "names"
    /\ nameList \in NameLists
    /\ commentariesByFile \in CommentariesByFile
    /\ meaningsMd = << >> /\ meaningsJson = << >> /\ commentariesJson = << >>
    /\ pendingCommentaries = << >> /\ report = << >>
    /\ TokIdle /\ ResIdle /\ AnnIdle /\ ExtIdle /\ CorpusIdle /\ PopIdle /\ PipeIdle

\* convert-to-names.js, main
GenerateTemplate ==
    /\ pc = "names"
    /\ meaningsMd' = MeaningsMarkdown(nameList, commentariesByFile)
    /\ pc' = "generated"
    /\ UNCHANGED << nameList, commentariesByFile, meaningsJson, commentariesJson,
                    pendingCommentaries, report,
                    tokVars, resVars, annVars, extVars, corpusVars, popVars, pipeVars >>

\* the extractor, main
ExtractMeanings ==
    /\ pc = "generated"
    /\ meaningsJson' = SortNames(ParsedBlocks(SplitBlocks(SplitOn(meaningsMd, "\n"))))
    /\ pc' = "meanings"
    /\ UNCHANGED << nameList, commentariesByFile, meaningsMd, commentariesJson,
                    pendingCommentaries, report,
                    tokVars, resVars, annVars, extVars, corpusVars, popVars, pipeVars >>

\* split-meanings-json.js, main, lines 16-42: a run (the first one, or one on
\* the output of the first) reads meanings.json, builds meanings and
\* commentaries and writes meanings.json
WriteMeanings ==
    /\ pc \in {"meanings", "split"}
    /\ meaningsJson' = SplitMeanings(meaningsJson)
    /\ pendingCommentaries' = SplitCommentaries(meaningsJson, << >>)
    /\ pc' = IF pc = "meanings" THEN "writing" ELSE "writing again"
    /\ UNCHANGED << nameList, commentariesByFile, meaningsMd, commentariesJson, report,
                    tokVars, resVars, annVars, extVars, corpusVars, popVars, pipeVars >>

\* split-meanings-json.js, main, lines 46-49: the run writes commentaries.json
WriteCommentaries ==
    /\ pc \in {"writing", "writing again"}
    /\ commentariesJson' = pendingCommentaries
    /\ pendingCommentaries' = << >>
    /\ pc' = IF pc = "writing" THEN "split" ELSE "split again"
    /\ UNCHANGED << nameList, commentariesByFile, meaningsMd, meaningsJson, report,
                    tokVars, resVars, annVars, extVars, corpusVars, popVars, pipeVars >>

\* split-meanings-json.js, main, lines 50-54: readFile, JSON.parse or a
\* writeFile rejects and the run ends in the catch
SplitFails ==
    /\ pc \in {"meanings", "split", "writing", "writing again"}
    /\ IF pc \in {"meanings", "split"}
       THEN /\ meaningsJson' \in AfterFailedWrite(meaningsJson, SplitMeanings(meaningsJson))
            /\ UNCHANGED commentariesJson
       ELSE /\ commentariesJson' \in AfterFailedWrite(commentariesJson, pendingCommentaries)
            /\ UNCHANGED meaningsJson
    /\ pendingCommentaries' = << >>
    /\ pc' = "split failed"
    /\ UNCHANGED << nameList, commentariesByFile, meaningsMd, report,
                    tokVars, resVars, annVars, extVars, corpusVars, popVars, pipeVars >>

\* find-missing-commentaries.js, main, run when the splitter has finished
FindMissing ==
    /\ pc = "split"
    /\ report' = MissingCommentaries(meaningsJson, commentariesJson)
    /\ pc' = "audited"
    /\ UNCHANGED << nameList, commentariesByFile, meaningsMd, meaningsJson, commentariesJson,
                    pendingCommentaries,
                    tokVars, resVars, annVars, extVars, corpusVars, popVars, pipeVars >>

ScriptsNext ==
    \/ GenerateTemplate \/ ExtractMeanings
    \/ WriteMeanings \/ WriteCommentaries \/ SplitFails
    \/ FindMissing

SpecScripts == ScriptsInit /\ [][ScriptsNext]_vars

(* every run of the model *)
Init == TokInit \/ ResInit \/ AnnInit \/ ExtInit \/ BlockInit \/ CorpusInit \/ PopInit \/ PipeInit \/ ScriptsInit
Next == TokNext \/ ResNext \/ AnnNext \/ ExtNext \/ BlockNext \/ CorpusNext \/ PopNext \/ PipeNext \/ ScriptsNext
Spec == Init /\ [][Next]_vars

-----------------------------------------------------------------------------
(* Properties *)

\* the text of all segments, concatenated in emission order
ConcatText(segments) == Flatten([i \in 1..Len(segments) |-> segments[i].word])

\* the line holds no bracket annotation
NoAnnotation(l) == MatchAllFrom(l, 1) = << >>

Tokenized == pc \in {"parsed", "extracted again"}

\* the indices of the line that lie inside a verse marker
RECURSIVE VerseNumberIndices(_, _)
VerseNumberIndices(s, q) ==
    IF q > Len(s) THEN {}
    ELSE LET e == MatchVerseNumberAt(s, q)
         IN IF e = 0 THEN VerseNumberIndices(s, q + 1)
            ELSE (q..e) \cup VerseNumberIndices(s, e + 1)

\* what is left of the code unit at index i: itself when it is no white
\* space or lies inside a verse marker; one space when it opens a run of
\* white space that has a unit of the same span on both sides; nothing else
KeptOf(l, i) ==
    LET inMarker == VerseNumberIndices(l, 1)
        next == SkipIn(l, i, WhiteSpace)
    IN IF i \in inMarker \/ l[i] \notin WhiteSpace THEN << l[i] >>
       ELSE IF /\ i > 1 /\ l[i - 1] \notin WhiteSpace /\ (i - 1) \notin inMarker
               /\ next <= Len(l) /\ next \notin inMarker
            THEN << " " >>
            ELSE << >>

\* C1 (as stated): for every line without a bracket annotation, the text of
\* the segments of parseWordsFromLine, concatenated in order, is the line.
C1_Lossless ==
    (Tokenized /\ NoAnnotation(line)) => ConcatText(result) = line

\* C1 (amended): for every line without a bracket annotation, the text of the
\* segments, concatenated in order, is the line with every run of white space
\* outside the verse markers replaced by one space when it stands between two
\* units of the same span, and removed when it stands at an end of the line
\* or next to a verse marker.
C1_LosslessUpToWhiteSpace ==
    (Tokenized /\ NoAnnotation(line))
        => ConcatText(result) = Flatten([i \in 1..Len(line) |-> KeptOf(line, i)])

\* C1: a word, a space and a verse marker: the space is not emitted
C1_Witness ==
    /\ pc = "parsed"
    /\ line = << "ka", " ", DDANDA, "1", DDANDA >>
    /\ NoAnnotation(line)
    /\ ConcatText(result) = << "ka", DDANDA, "1", DDANDA >>

\* C2: findCommentary of sarvarunaa-avagraha-navadyangi against the source
\* with the two keys sarvaruna (text A) and anavadyangi (text B) returns "A B".
C2_AvagrahaCombination ==
    ( /\ pc = "resolved"
      /\ name = SarvarunaAnavadyangi
      /\ commentarySource = << Entry(Sarvaruna, << "A" >>), Entry(Anavadyangi, << "B" >>) >> )
        => found = << "A", " ", "B" >>

\* the annotations recorded under an id
AnnotationsAt(map, id) == SelectSeq(map, LAMBDA e : e.id = id)

\* the texts an annotation holds for a source
EntryTexts(e, sourceName) ==
    { e.commentariesBySource[k].text :
        k \in { n \in 1..Len(e.commentariesBySource) :
                  e.commentariesBySource[n].source = sourceName } }

\* the text recorded for a source under an id, Null when there is none
TextAt(map, id, sourceName) ==
    LET texts == UNION { EntryTexts(map[m], sourceName) :
                           m \in { n \in 1..Len(map) : map[n].id = id } }
    IN IF texts = {} THEN Null ELSE CHOOSE t \in texts : TRUE

ScenarioSource == << Entry(Shrimata, << "M", "1" >>), Entry(Namah, << "M", "2" >>) >>

Rendered == pc \in {"rendered", "rendered again"}

\* the pairs (line number, source name) of the scenario: the scenario line
\* and a source that is the scenario source
ScenarioCases ==
    { c \in (1..Len(sanskritText)) \X (1..Len(commentaries)) :
        sanskritText[c[1]] = ScenarioLine /\ commentaries[c[2]].source = ScenarioSource }

\* C3 (as stated): for the scenario line and the scenario source, M1 is
\* recorded at positionIndex 0 and M2 at positionIndex 1 of the line, and
\* nothing for the verse-marker segment (index 3).
C3_ScenarioPositions ==
    Rendered =>
        \A c \in ScenarioCases :
            LET i == c[1] - 1
                src == commentaries[c[2]].name
            IN /\ TextAt(wordToCommentaryMap, << i, 0 >>, src) = << "M", "1" >>
               /\ TextAt(wordToCommentaryMap, << i, 1 >>, src) = << "M", "2" >>
               /\ AnnotationsAt(wordToCommentaryMap, << i, 3 >>) = << >>

\* C3 (amended): for the scenario line and the scenario source, M1 is
\* recorded at positionIndex 0 and M2 at positionIndex 2 of the line, the
\* index of the segment among all segments (the separator is at index 1);
\* nothing is recorded for the separator and for the verse-marker segment
\* (index 3).
C3_ScenarioSegmentPositions ==
    Rendered =>
        \A c \in ScenarioCases :
            LET i == c[1] - 1
                src == commentaries[c[2]].name
            IN /\ TextAt(wordToCommentaryMap, << i, 0 >>, src) = << "M", "1" >>
               /\ TextAt(wordToCommentaryMap, << i, 2 >>, src) = << "M", "2" >>
               /\ AnnotationsAt(wordToCommentaryMap, << i, 1 >>) = << >>
               /\ AnnotationsAt(wordToCommentaryMap, << i, 3 >>) = << >>

\* C3: the scenario rendered with the scenario source alone
C3_Witness ==
    /\ pc = "rendered"
    /\ sanskritText = << ScenarioLine >>
    /\ commentaries = << [name |-> "Bhaskaraya", source |-> ScenarioSource] >>
    /\ Len(wordToCommentaryMap) = 2
    /\ wordToCommentaryMap[2].id = << 0, 2 >>
    /\ wordToCommentaryMap[2].word = Namah

\* C4: the pre-pass applied to the cleaned line of a line returns the cleaned
\* line unchanged and an empty breakdown map.
C4_ExtractionIdempotent ==
    pc = "extracted again" => (reprocessedLine = processedLine /\ rebreakdowns = << >>)

\* the numbers of the lines that the annotator visits: the lines that are
\* neither blank nor the colophon
VisitedLines ==
    { i \in 1..Len(sanskritText) :
        Trim(sanskritText[i]) # << >> /\ ~IsConcludingLine(sanskritText[i]) }

\* the numbers of the components that resolve in a source, in ascending order
ResolvingComponents(components, source) ==
    SelectSeq([k \in 1..Len(components) |-> k],
              LAMBDA k : Truthy(findCommentary(components[k], source)))

\* the blocks "<component>\n<meaning>" of the components numbered in ks,
\* one blank line between two blocks
RECURSIVE JoinedBlocks(_, _, _)
JoinedBlocks(components, source, ks) ==
    IF ks = << >> THEN << >>
    ELSE LET rest == JoinedBlocks(components, source, Tail(ks))
             block == components[Head(ks)] \o << "\n" >>
                          \o findCommentary(components[Head(ks)], source)
         IN IF rest = << >> THEN block ELSE block \o << "\n", "\n" >> \o rest

\* C5: for a Word with breakdown components and a source in which at least
\* one component resolves, the text recorded for the source is the sequence
\* of blocks "<component>\n<meaning>" of exactly the components that resolve
\* in it, in component order, joined by one blank line; a component that does
\* not resolve adds nothing and does not prevent the annotation.
C5_ComponentBlocks ==
    Rendered =>
        \A i \in VisitedLines :
            LET parsed == parseWordsFromLine(sanskritText[i])
            IN \A j \in 1..Len(parsed) : \A d \in 1..Len(commentaries) :
                  LET item == parsed[j]
                      components == item.breakdownComponents[1]
                      ks == ResolvingComponents(components, commentaries[d].source)
                  IN (item.isWord /\ item.breakdownComponents # << >> /\ components # << >>
                        /\ ks # << >>)
                     => TextAt(wordToCommentaryMap, << i - 1, j - 1 >>, commentaries[d].name)
                            = JoinedBlocks(components, commentaries[d].source, ks)

\* C5: the word with the components ka, ga, ta in a source that holds ka and
\* ta but not ga: two blocks, the middle component left out
C5_Witness ==
    /\ pc = "rendered"
    /\ sanskritText = << BreakdownLine >>
    /\ Len(wordToCommentaryMap) > 0
    /\ wordToCommentaryMap[1].breakdownComponents = << << << "ka" >>, << "ga" >>, << "ta" >> >> >>
    /\ TextAt(wordToCommentaryMap, << 0, 0 >>, "V. Ravi")
           = << "ka", "\n", "A", "\n", "\n", "ta", "\n", "B" >>

\* lines 117-159: the Om test, the exact lookup and the avagraha block all
\* fail, so findCommentary reaches the lookups without dashes (lines 161-175)
EarlierStepsFail(n, source) ==
    /\ n # OmSign /\ n # OmSyllable
    /\ ~Truthy(Lookup(source, n))
    /\ AvagrahaStep(n, source) = Null

\* the text of the first key, in insertion order, that equals the word once
\* the hyphens are removed from both
FirstMatchingKeyText(n, source, text) ==
    \A i \in 1..Len(source) :
        ( /\ RemoveDashes(source[i].key) = RemoveDashes(n)
          /\ \A j \in 1..(i - 1) : RemoveDashes(source[j].key) # RemoveDashes(n) )
            => text = source[i].text

\* no key equals the word once the hyphens are removed from both
NoMatchingKey(n, source) ==
    \A i \in 1..Len(source) : RemoveDashes(source[i].key) # RemoveDashes(n)

\* the example: the word with the hyphen against a source that holds the
\* word without it
HyphenExample(n, source, text) ==
    ( /\ n = ChitisTatpada \o << "-" >> \o Lakshyartha
      /\ \E i \in 1..Len(source) : source[i].key = ChitisTatpada \o Lakshyartha )
        => text = Lookup(source, ChitisTatpada \o Lakshyartha)

\* C6: for a word that is no Om form and a source in which the Om test, the
\* exact lookup and the avagraha steps all fail, findCommentary returns the
\* text of the first key, in insertion order, that equals the word once the
\* hyphens are removed from both, and not-found when there is no such key;
\* the example word with the hyphen resolves to the text of the key without it.
C6_HyphenInsensitiveFallback ==
    (pc = "resolved" /\ EarlierStepsFail(name, commentarySource))
        => /\ FirstMatchingKeyText(name, commentarySource, found)
           /\ NoMatchingKey(name, commentarySource) => found = Null
           /\ HyphenExample(name, commentarySource, found)

\* C6: as above, except that a key equal to the word without its hyphens
\* wins when it holds a text: findCommentary returns the text of that key,
\* whatever its place in the insertion order, and only without such a key the
\* text of the first key, in insertion order, that equals the word once the
\* hyphens are removed from both; not-found when no key matches.
C6_DashlessKeyThenFirstMatch ==
    (pc = "resolved" /\ EarlierStepsFail(name, commentarySource))
        => /\ Truthy(Lookup(commentarySource, RemoveDashes(name)))
                => found = Lookup(commentarySource, RemoveDashes(name))
           /\ ~Truthy(Lookup(commentarySource, RemoveDashes(name)))
                => FirstMatchingKeyText(name, commentarySource, found)
           /\ NoMatchingKey(name, commentarySource) => found = Null
           /\ HyphenExample(name, commentarySource, found)

\* C6: two keys equal the word once the hyphens are removed; the second one
\* is the word without its hyphens and its text is returned
C6_Witness ==
    /\ pc = "resolved"
    /\ name = << "-", "ka", "-", "ga" >>
    /\ commentarySource = << Entry(<< "ka", "-", "ga" >>, << "A" >>),
                             Entry(<< "ka", "ga" >>, << "B" >>) >>
    /\ EarlierStepsFail(name, commentarySource)
    /\ RemoveDashes(commentarySource[1].key) = RemoveDashes(name)
    /\ found = << "B" >>

\* C7: for the two Om forms, findCommentary returns the built-in gloss for
\* every source: an empty one, one that lacks the word and one that holds
\* the word with another text.
C7_OmGloss ==
    (pc = "resolved" /\ (name = OmSign \/ name = OmSyllable)) => found = OmGloss

\* C7: the source holds the Om sign with a text of its own
C7_Witness ==
    /\ pc = "resolved"
    /\ name = OmSign
    /\ Lookup(commentarySource, OmSign) = << "A" >>
    /\ found = OmGloss

\* the ids that carry an annotation in one of the two renders
AnnotationIds ==
    { prevMap[e].id : e \in 1..Len(prevMap) }
        \cup { wordToCommentaryMap[e].id : e \in 1..Len(wordToCommentaryMap) }

\* C8: the text recorded for a source at a word position, or its absence,
\* does not change when the other sources are replaced, emptied, removed or
\* added: between two renders of a document in which the source is the same,
\* its text at every position is the same.
C8_PerSourceIndependence ==
    pc = "rendered again" =>
        \A n \in 1..Len(SourceNames) :
            SourceOf(prevCommentaries, SourceNames[n]) = SourceOf(commentaries, SourceNames[n])
                => \A id \in AnnotationIds :
                      TextAt(prevMap, id, SourceNames[n])
                          = TextAt(wordToCommentaryMap, id, SourceNames[n])

\* C8: a source keeps its text at a position where another source, changed
\* between the renders, went from a hit to a miss
C8_Witness ==
    /\ pc = "rendered again"
    /\ \E n, m \in 1..Len(SourceNames) : \E id \in AnnotationIds :
          /\ n # m
          /\ SourceOf(prevCommentaries, SourceNames[n]) = SourceOf(commentaries, SourceNames[n])
          /\ TextAt(wordToCommentaryMap, id, SourceNames[n]) # Null
          /\ TextAt(prevMap, id, SourceNames[m]) # Null
          /\ TextAt(wordToCommentaryMap, id, SourceNames[m]) = Null

\* the source produces a non-empty text for the segment
Produces(item, source) ==
    IF item.breakdownComponents # << >> /\ item.breakdownComponents[1] # << >>
    THEN \E k \in 1..Len(item.breakdownComponents[1]) :
            Truthy(findCommentary(item.breakdownComponents[1][k], source))
    ELSE Truthy(findCommentary(item.word, source))

\* C9: a Word segment has an annotation exactly when some source produced a
\* non-empty text for it; the commentariesBySource of every annotation holds
\* exactly the sources that produced text and is never empty; a segment that
\* is no Word has no annotation.
C9_AnnotatedIffSomeSource ==
    Rendered =>
        /\ \A i \in VisitedLines :
              LET parsed == parseWordsFromLine(sanskritText[i])
              IN /\ \A j \in 1..Len(parsed) :
                      LET item == parsed[j]
                          here == AnnotationsAt(wordToCommentaryMap, << i - 1, j - 1 >>)
                          producing == { d \in 1..Len(commentaries) :
                                           Produces(item, commentaries[d].source) }
                      IN /\ Len(here) <= 1
                         /\ Len(here) = 1 <=> (item.isWord /\ producing # {})
                         /\ Len(here) = 1 =>
                               { here[1].commentariesBySource[k].source :
                                   k \in 1..Len(here[1].commentariesBySource) }
                                   = { commentaries[d].name : d \in producing }
                 /\ \A e \in 1..Len(wordToCommentaryMap) :
                      wordToCommentaryMap[e].id[1] = i - 1
                          => wordToCommentaryMap[e].id[2] + 1 \in 1..Len(parsed)
        /\ \A e \in 1..Len(wordToCommentaryMap) :
              /\ wordToCommentaryMap[e].commentariesBySource # << >>
              /\ wordToCommentaryMap[e].id[1] + 1 \in VisitedLines

\* C9: of the two words of a line one has an annotation and one has none
C9_Witness ==
    /\ pc = "rendered"
    /\ sanskritText = << BreakdownLine >>
    /\ commentaries = << [name |-> "V. Ravi",
                          source |-> << Entry(<< "ga" >>, << "B" >>),
                                        Entry(<< "ka", "ga" >>, << "A" >>) >>] >>
    /\ Len(wordToCommentaryMap) = 1
    /\ wordToCommentaryMap[1].id = << 0, 0 >>

\* C10: the output array is in ascending order of nameNumber, an entry
\* without a number counting as 0, for every file order of the blocks;
\* entries that compare equal keep their file order.
C10_OrderedByNumber ==
    pc = "written" =>
        /\ Len(ordered) = Len(blocks)
        /\ { ordered[i] : i \in 1..Len(ordered) } = { blocks[i] : i \in 1..Len(blocks) }
        /\ \A i, j \in 1..Len(ordered) :
              i < j =>
                LET a == IF ordered[i].nameNumber = NoNumber THEN 0 ELSE ordered[i].nameNumber
                    b == IF ordered[j].nameNumber = NoNumber THEN 0 ELSE ordered[j].nameNumber
                IN /\ a <= b
                   /\ a = b => ordered[i].block < ordered[j].block

\* C10: the blocks 3, none, 1, 0 in file order come out as none, 0, 1, 3
C10_Witness ==
    /\ pc = "written"
    /\ [i \in 1..Len(blocks) |-> blocks[i].nameNumber] = << 3, NoNumber, 1, 0 >>
    /\ [i \in 1..Len(ordered) |-> ordered[i].block] = << 2, 4, 3, 1 >>

-----------------------------------------------------------------------------
(* C13: the entry numbers of the output array *)

\* C13: no two entries of the output array carry the same non-null
\* nameNumber, for every corpus.
C13_UniqueEntryNumbers ==
    pc = "written" =>
        \A i, j \in 1..Len(ordered) :
            (i # j /\ ordered[i].nameNumber # NoNumber)
                => ordered[i].nameNumber # ordered[j].nameNumber

-----------------------------------------------------------------------------
(* C16, C17: the split on the avagraha *)

\* the word has exactly one avagraha and it stands between two non-empty parts
SplitsInTwo(n) ==
    /\ Cardinality({ i \in 1..Len(n) : n[i] = AVAGRAHA }) = 1
    /\ n[1] # AVAGRAHA
    /\ n[Len(n)] # AVAGRAHA

\* the parts P1 and P2 of such a word
FirstPart(n) == SubSeq(n, 1, (CHOOSE i \in 1..Len(n) : n[i] = AVAGRAHA) - 1)
SecondPart(n) == SubSeq(n, (CHOOSE i \in 1..Len(n) : n[i] = AVAGRAHA) + 1, Len(n))

IsKey(source, key) == \E i \in 1..Len(source) : source[i].key = key

\* C16: for a word other than Om with exactly one avagraha between two
\* non-empty parts P1 and P2, when neither the word nor the word with the
\* avagraha replaced by the letter a is a key: with both parts keys the result
\* is text(P1), one space, text(P2); with exactly one part a key the result
\* is the text of that part.
C16_AvagrahaSplit ==
    (/\ pc = "resolved"
     /\ name \notin {OmSign, OmSyllable}
     /\ SplitsInTwo(name)
     /\ ~IsKey(commentarySource, name)
     /\ ~IsKey(commentarySource, ReplaceAvagraha(name)))
    => LET P1 == FirstPart(name)
           P2 == SecondPart(name)
       IN /\ (IsKey(commentarySource, P1) /\ IsKey(commentarySource, P2))
                => found = Lookup(commentarySource, P1) \o << " " >>
                               \o Lookup(commentarySource, P2)
          /\ (IsKey(commentarySource, P1) /\ ~IsKey(commentarySource, P2))
                => found = Lookup(commentarySource, P1)
          /\ (~IsKey(commentarySource, P1) /\ IsKey(commentarySource, P2))
                => found = Lookup(commentarySource, P2)

\* C16: ka + avagraha + ga with the keys ka and ga of different texts
C16_Witness ==
    /\ pc = "resolved"
    /\ name = << "ka", AVAGRAHA, "ga" >>
    /\ commentarySource = << Entry(<< "ka" >>, << "A" >>), Entry(<< "ga" >>, << "B" >>) >>
    /\ found = << "A", " ", "B" >>

\* the retry of lines 151-156 is what answers for the word: the ladder
\* above it has failed, P1 with the letter a appended and P2 are keys, and
\* the result is their two texts joined by one space
RetryAnswers(n, source) ==
    /\ n \notin {OmSign, OmSyllable}
    /\ SplitsInTwo(n)
    /\ ~IsKey(source, n)
    /\ ~IsKey(source, ReplaceAvagraha(n))
    /\ ~IsKey(source, FirstPart(n))
    /\ IsKey(source, FirstPart(n) \o << VOWEL_A >>)
    /\ IsKey(source, SecondPart(n))
    /\ findCommentary(n, source)
         = Lookup(source, FirstPart(n) \o << VOWEL_A >>) \o << " " >>
               \o Lookup(source, SecondPart(n))

\* C17: there are a word with exactly one avagraha and a source for which
\* the retry of the first part with the letter a appended produces the
\* result of findCommentary.
C17_RetryEffective ==
    pc \in {"word", "resolved"} =>
        \E n \in ResolverNames : \E source \in ResolverSources : RetryAnswers(n, source)

-----------------------------------------------------------------------------
(* C18: units made of dandas only *)

OnlyDandas(w) == w # << >> /\ \A k \in 1..Len(w) : w[k] = DANDA

\* C18: a white-space delimited unit that consists of single dandas only
\* yields no Word segment: no segment with isWord set consists of dandas
\* only (such a segment can only come from such a unit).
C18_NoWordForDandaUnit ==
    Tokenized => \A i \in 1..Len(result) : result[i].isWord => ~OnlyDandas(result[i].word)

-----------------------------------------------------------------------------
(* C19: a word annotated twice on a line *)

\* the matches of the pre-pass on the line and the key each one sets
LineMatches == MatchAllFrom(line, 1)
KeyOf(m) == StripTrailingDandas(m.wordBeforeBrackets)

\* match j is the last annotation of its word, and an earlier annotation of
\* the same word lists other components
LaterOfTwo(j) ==
    /\ KeyOf(LineMatches[j]) # << >>
    /\ \A k \in (j + 1)..Len(LineMatches) : KeyOf(LineMatches[k]) # KeyOf(LineMatches[j])
    /\ \E i \in 1..(j - 1) :
          /\ KeyOf(LineMatches[i]) = KeyOf(LineMatches[j])
          /\ SplitComponents(LineMatches[i].componentsStr)
               # SplitComponents(LineMatches[j].componentsStr)

\* C19: when a word carries two different bracket annotations on one line,
\* the breakdown map holds the components of the later annotation, and every
\* Word segment of the line with that word carries the later components.
C19_LaterAnnotationWins ==
    Tokenized =>
        \A j \in 1..Len(LineMatches) :
            LaterOfTwo(j) =>
                LET word == KeyOf(LineMatches[j])
                    later == SplitComponents(LineMatches[j].componentsStr)
                IN /\ word \in DOMAIN breakdowns
                   /\ breakdowns[word] = later
                   /\ \A i \in 1..Len(result) :
                         (result[i].isWord /\ result[i].word = word)
                            => result[i].breakdownComponents = << later >>

\* C19: "ka [ga] ka [ka +ga] ka": the three occurrences carry ka, ga
C19_Witness ==
    /\ pc = "parsed"
    /\ line = << "ka", " ", "[", "ga", "]", " ", "ka", " ", "[", "ka", " ", "+", "ga", "]",
                 " ", "ka" >>
    /\ breakdowns = (<< "ka" >> :> << << "ka" >>, << "ga" >> >>)
    /\ Len(result) = 5
    /\ \A i \in {1, 3, 5} :
          result[i] = Segment(<< "ka" >>, TRUE, << << << "ka" >>, << "ga" >> >> >>)

-----------------------------------------------------------------------------
(* C20: the colophon *)

\* the number of lines among the first i of the document that go to the
\* verse list
RegularRank(i) ==
    Cardinality({ k \in 1..i : ~IsConcludingLine(sanskritText[k]) })

\* C20: every line of the document that matches the colophon pattern has
\* no word annotation and is the text rendered as the colophon, outside
\* the verse list; every other line is rendered in the verse list, in
\* document order.
C20_ColophonRenderedApart ==
    Rendered =>
        \A i \in 1..Len(sanskritText) :
            IF IsConcludingLine(sanskritText[i])
            THEN /\ \A e \in 1..Len(wordToCommentaryMap) :
                        wordToCommentaryMap[e].id[1] # i - 1
                 /\ concludingLine = sanskritText[i]
            ELSE /\ RegularRank(i) <= Len(regularLines)
                 /\ regularLines[RegularRank(i)] = sanskritText[i]

-----------------------------------------------------------------------------
(* parseNameBlock: what a block holds, read off its lines *)

HasLine(b, l) == \E i \in 1..Len(b) : b[i] = l

\* the first line of a section header behind the header of the block, or
\* the length of the block plus one
FirstSectionLine(b) ==
    LET heads == { i \in 2..Len(b) : Len(b[i]) >= 2 /\ SubSeq(b[i], 1, 2) = << "#", "#" >> }
    IN IF heads = {} THEN Len(b) + 1 ELSE CHOOSE i \in heads : \A j \in heads : i <= j

\* the first line of a ROOT BREAKDOWN, ETYMOLOGY or COMPOSITIONS header, or
\* the length of the block plus one: the end of the name lines
NameLinesEnd(b) ==
    LET heads == { i \in 2..Len(b) :
                     b[i] \in { RootHeaderLine, EtymologyHeaderLine, CompositionsHeaderLine } }
    IN IF heads = {} THEN Len(b) + 1 ELSE CHOOSE i \in heads : \A j \in heads : i <= j

\* the numbers of the marker lines among the lines first to last, in order
MarkerNumbersIn(b, first, last) ==
    LET markers == SelectSeq(SubSeq(b, first, last),
                             LAMBDA l : \E m \in 0..(MaxNameNumber + 1) : l = MarkerLine(m))
    IN [i \in 1..Len(markers) |->
          CHOOSE m \in 0..(MaxNameNumber + 1) : markers[i] = MarkerLine(m)]

\* the numbers of the marker lines of the name lines, in order
MarkerNumbers(b) == MarkerNumbersIn(b, 2, NameLinesEnd(b) - 1)

\* the numbers of the marker lines in front of the first section of any kind
MarkerNumbersBeforeSections(b) == MarkerNumbersIn(b, 2, FirstSectionLine(b) - 1)

\* the rows of the table of a block, in order, as entries of rootBreakdown
TableRowsOf(b) ==
    LET rowLines == SelectSeq(b, LAMBDA l : \E k \in 1..Len(TableRows) : l = TableRows[k].line)
    IN [i \in 1..Len(rowLines) |->
          LET row == TableRows[CHOOSE k \in 1..Len(TableRows) : TableRows[k].line = rowLines[i]]
          IN [compound |-> row.compound, sandhi |-> row.sandhi,
              components |-> row.components, grammar |-> row.grammar,
              meaning |-> [literal |-> row.literal, contextual |-> row.contextual]]]

\* the commentary sections of a block
SectionsOf(b) == { i \in 1..Len(CommentarySections) : HasLine(b, CommentarySections[i].header) }

\* the sections of the sources the extractor names: COMMENTARY of
\* Bhaskararaya and of V. Ravi, and every COMMENTARIES section
NamedSections == { i \in 1..Len(CommentarySections) : CommentarySections[i].header # CommentarySections[3].header }

\* C12: the number of an entry is the number of the marker line of its name
\* lines (the lines in front of the ROOT BREAKDOWN, ETYMOLOGY or COMPOSITIONS
\* header; of the last marker line when there are several) whatever the header
\* declares; without a marker line it is the number of the header; without
\* a marker line and without a number in the header it is null, and the entry
\* is produced all the same.
C12_EntryNumberResolution ==
    pc = "parsed" =>
        LET ms == MarkerNumbers(nameBlock)
        IN /\ Len(nameEntry) = 1
           /\ nameEntry[1].nameNumber =
                 IF ms # << >> THEN ms[Len(ms)]
                 ELSE IF \E n \in 1..MaxNameNumber : nameBlock[1] = HeaderLine(n)
                 THEN CHOOSE n \in 1..MaxNameNumber : nameBlock[1] = HeaderLine(n)
                 ELSE NoNumber

\* a header that declares 1 and a marker line of 2: the entry has number 2
C12_Witness ==
    /\ pc = "parsed"
    /\ nameBlock[1] = HeaderLine(1)
    /\ MarkerNumbers(nameBlock) = << 2 >>
    /\ nameEntry[1].nameNumber = 2

\* a block without a number in the header and without marker line: an entry
\* with the number null
C12_WitnessNull ==
    /\ pc = "parsed"
    /\ nameBlock[1] = BadHeaderLine
    /\ MarkerNumbers(nameBlock) = << >>
    /\ nameEntry[1].nameNumber = NoNumber

\* lines 612-614 and 634-643: the entry of a block holds the rows of the table
\* and no composition
TableAndNoComposition(b, entry) ==
    /\ entry.rootBreakdown = TableRowsOf(b)
    /\ entry.rootBreakdown # << >>
    /\ entry.compositions.summary = << >>
    /\ entry.compositions.wordByWord = << >>

\* the commentaries of the entry hold, for every commentary section of the
\* block, the text of the blockquote lines of that section (in the blocks of
\* QuotedMarkerBlocks a section has one more blockquote line, the marker line)
CommentaryTextsHeld(b, entry) ==
    \A i \in SectionsOf(b) :
        /\ CommentarySections[i].key \in DOMAIN entry.commentaries
        /\ entry.commentaries[CommentarySections[i].key].text = CommentarySections[i].text

\* C11: a block without COMPOSITIONS section that has a ROOT BREAKDOWN table
\* and commentary sections (COMMENTARY or COMMENTARIES, of any label) yields
\* an entry whose rootBreakdown is the rows of the table, whose commentaries
\* hold the text of each commentary section, whose summary is the empty
\* string and whose wordByWord is empty.
C11_MissingCompositions ==
    ( /\ pc = "parsed"
      /\ ~HasLine(nameBlock, CompositionsHeaderLine)
      /\ HasLine(nameBlock, RootHeaderLine)
      /\ SectionsOf(nameBlock) # {}
      /\ nameBlock \notin QuotedMarkerBlocks ) =>
        /\ Len(nameEntry) = 1
        /\ TableAndNoComposition(nameBlock, nameEntry[1])
        /\ CommentaryTextsHeld(nameBlock, nameEntry[1])

\* the fields the prose of a block gives: indices of ProseFields
FieldsOf(b) == { i \in 1..Len(ProseFields) : HasLine(b, ProseFields[i].line) }

\* the value of field i of the merged record
MergedField(record, i) ==
    CASE ProseFields[i].field = "breakdown" -> record.breakdown
      [] ProseFields[i].field = "sandhi" -> record.sandhi
      [] ProseFields[i].field = "grammar" -> record.grammar
      [] ProseFields[i].field = "literal" -> record.meaning.literal
      [] ProseFields[i].field = "contextual" -> record.meaning.contextual

\* the cell of the table for field i
TableField(row, i) ==
    CASE ProseFields[i].field = "breakdown" -> row.components
      [] ProseFields[i].field = "sandhi" -> row.sandhi
      [] ProseFields[i].field = "grammar" -> row.grammar
      [] ProseFields[i].field = "literal" -> row.meaning.literal
      [] ProseFields[i].field = "contextual" -> row.meaning.contextual

\* the block has one table row and a prose subsection of its compound
HasProseSubsection(b) ==
    /\ HasLine(b, EtymologyHeaderLine)
    /\ HasLine(b, BoldHeadingLine) \/ HasLine(b, PlainHeadingLine)
    /\ Len(TableRowsOf(b)) = 1

\* C14: for a compound of the table that has a prose subsection, each field
\* of the merged etymology record (breakdown, sandhi, grammar, literal,
\* contextual) is the value of the prose when the prose gives the field, and
\* the cell of the table when it does not.
C14_ProseWinsElseTable ==
    (pc = "parsed" /\ HasProseSubsection(nameBlock)) =>
        LET row == TableRowsOf(nameBlock)[1]
            record == nameEntry[1].etymology[row.compound]
        IN \A i \in 1..Len(ProseFields) :
              MergedField(record, i) =
                 IF i \in FieldsOf(nameBlock) THEN ProseFields[i].value
                 ELSE TableField(row, i)

\* C15: the commentaries of an entry have exactly one entry per COMMENTARY
\* or COMMENTARIES section of the block, whatever its label, and no entry of
\* a source without section.
C15_OneEntryPerSection ==
    pc = "parsed" =>
        /\ \A i \in SectionsOf(nameBlock) :
              CommentarySections[i].key \in DOMAIN nameEntry[1].commentaries
        /\ Cardinality(DOMAIN nameEntry[1].commentaries) = Cardinality(SectionsOf(nameBlock))

\* C21: the text of every commentary entry is the content of the blockquote
\* lines of its own section, the leading > stripped, and nothing else: no
\* other line of the section and no line of a later section.
C21_OwnBlockquoteLinesOnly ==
    (pc = "parsed" /\ nameBlock \notin QuotedMarkerBlocks) =>
        \A i \in SectionsOf(nameBlock) \cap NamedSections :
            /\ CommentarySections[i].key \in DOMAIN nameEntry[1].commentaries
            /\ nameEntry[1].commentaries[CommentarySections[i].key].text
                  = CommentarySections[i].text

\* C22: the name, the IAST form and the number of an entry come from the
\* lines between the header and the first section header of any kind only: a
\* marker line inside a commentary section never sets the number.
C22_NameLinesBeforeFirstSection ==
    pc = "parsed" =>
        LET ms == MarkerNumbersBeforeSections(nameBlock)
            region == SubSeq(nameBlock, 2, FirstSectionLine(nameBlock) - 1)
        IN /\ nameEntry[1].nameNumber =
                 IF ms # << >> THEN ms[Len(ms)]
                 ELSE IF \E n \in 1..MaxNameNumber : nameBlock[1] = HeaderLine(n)
                 THEN CHOOSE n \in 1..MaxNameNumber : nameBlock[1] = HeaderLine(n)
                 ELSE NoNumber
           /\ nameEntry[1].name.devanagari =
                 IF \E k \in 1..Len(region) : region[k] = DevanagariLine
                 THEN SubSeq(DevanagariLine, 3, Len(DevanagariLine)) ELSE << >>
           /\ nameEntry[1].name.iast =
                 IF \E k \in 1..Len(region) : region[k] = IastLine
                 THEN SubSeq(IastLine, 3, Len(IastLine)) ELSE << >>

-----------------------------------------------------------------------------
(* C27: one entry for each header line of the corpus *)

\* the lines of the text that start a block
HeaderLinesOf(text) ==
    { i \in 1..Len(SplitOn(text, "\n")) : StartsWith(SplitOn(text, "\n")[i], NameHeaderPrefix) }

\* C27: the array that main writes holds exactly one entry for each line of
\* the corpus that starts with "# NAME ": text in front of the first header
\* makes no entry, a corpus without a header makes the empty array.
C27_OneEntryPerHeader ==
    pc = "extracted" => Len(ordered) = Cardinality(HeaderLinesOf(raw))

-----------------------------------------------------------------------------
(* C28: an annotated word is emitted with its components *)

\* C28: every word of the line that carries a bracket annotation with at
\* least one non-empty component is emitted as a Word segment with exactly
\* those components, whatever dandas and double dandas end the word: the key
\* of the breakdown map is the text of a Word segment of the line.
C28_AnnotatedWordEmitted ==
    Tokenized =>
        \A key \in DOMAIN breakdowns :
            breakdowns[key] # << >> =>
                \E i \in 1..Len(result) :
                    result[i] = Segment(key, TRUE, << breakdowns[key] >>)

-----------------------------------------------------------------------------
(* C24: the rendered words and their annotations *)

\* the annotations computed for segment p of line i of the document
ComputedAt(i, p) == AnnotationsAt(wordToCommentaryMap, << i - 1, p - 1 >>)

\* C24: wherever the colophon stands among the lines, every segment of every
\* line of the verse list is rendered as a popover exactly when an annotation
\* was computed for that segment of that line of the document, and the
\* popover then shows the word and the commentaries of that annotation.
C24_RenderedWordsOwnAnnotation ==
    Rendered =>
        \A i \in 1..Len(sanskritText) :
            (~IsConcludingLine(sanskritText[i]) /\ Trim(sanskritText[i]) # << >>) =>
                LET rendered == verseList[RegularRank(i)]
                    parsed == parseWordsFromLine(sanskritText[i])
                IN /\ Len(rendered) = Len(parsed)
                   /\ \A p \in 1..Len(parsed) :
                        /\ rendered[p].popover <=> (ComputedAt(i, p) # << >>)
                        /\ rendered[p].word = parsed[p].word
                        /\ rendered[p].popover =>
                              rendered[p].commentariesBySource
                                  = ComputedAt(i, p)[1].commentariesBySource

-----------------------------------------------------------------------------
(* C23, C30: the popovers *)

\* a word is opened while no word is open
InitialClick(e) == e.kind = "open" /\ e.from = NoWordId

\* the next word is asked for, or a word is opened while another one is open
Navigation(e) ==
    \/ e.kind = "next"
    \/ e.kind = "open" /\ e.from # NoWordId /\ e.from # e.wordId

\* C23: over every sequence of open, close and next events, a word opened
\* while no word is open becomes the open word with shouldScroll false, a
\* word reached by next or opened while a different word is open becomes the
\* open word with shouldScroll true, and shouldScroll turns from false to
\* true at no other event, so the word of an initial click stays unflagged
\* until a later navigation.
C23_ScrollFlag ==
    [][/\ InitialClick(event') => (openWordId' = event'.wordId /\ ~shouldScroll')
       /\ Navigation(event') => (openWordId' = event'.wordId /\ shouldScroll')
       /\ (~shouldScroll /\ shouldScroll') => Navigation(event')]_vars

\* C23: a word has been opened by an initial click after the flag had been
\* set by a navigation to a word that was closed again
C23_Witness ==
    /\ pc = "popovers"
    /\ InitialClick(event)
    /\ openWordId = event.wordId
    /\ ~shouldScroll
    /\ scrolledTo = NoWordId

\* C23: a word has been opened while another one was open, and is scrolled to
C23_WitnessNavigation ==
    /\ pc = "popovers"
    /\ event.kind = "open" /\ event.from # NoWordId /\ event.from # event.wordId
    /\ openWordId = event.wordId
    /\ shouldScroll
    /\ scrolledTo = openWordId

\* the ids of the annotated words
AnnotatedIds == { wordToCommentaryMap[i].id : i \in 1..Len(wordToCommentaryMap) }

\* document order of ids: by line, then by position
Before(a, b) == a[1] < b[1] \/ (a[1] = b[1] /\ a[2] < b[2])

\* the annotated word that follows id in document order, the first
\* annotated word behind the last one
Following(id) ==
    IF \E b \in AnnotatedIds : Before(id, b)
    THEN CHOOSE b \in AnnotatedIds :
            Before(id, b) /\ \A c \in AnnotatedIds : Before(id, c) => ~Before(c, b)
    ELSE CHOOSE b \in AnnotatedIds : \A c \in AnnotatedIds : ~Before(c, b)

\* C30: openWordId is null or the id of an annotated word; each next action
\* opens the annotated word that follows the open one in document order, the
\* first one after the last; n next actions in a row, n being the number of
\* annotated words, open every annotated word once and end on the word they
\* started from.
C30_NextWordCycle ==
    pc = "popovers" =>
        /\ openWordId \in AnnotatedIds \cup { NoWordId }
        /\ \A k \in 1..(Len(nextRun) - 1) : nextRun[k + 1] = Following(nextRun[k])
        /\ Len(nextRun) = Cardinality(AnnotatedIds) + 1 =>
              /\ nextRun[Len(nextRun)] = nextRun[1]
              /\ { nextRun[k] : k \in 2..Len(nextRun) } = AnnotatedIds

\* C30: four annotated words, and four next actions in a row have led back
\* to the word they started from
C30_Witness ==
    /\ pc = "popovers"
    /\ Cardinality(AnnotatedIds) = 4
    /\ Len(nextRun) = 5
    /\ nextRun[5] = nextRun[1]
    /\ openWordId = nextRun[1]
    /\ event.kind = "next"

-----------------------------------------------------------------------------
(* C29: the pipeline *)

HasMessage(text) == \E i \in 1..Len(log) : log[i].text = text

\* C29: the scripts are started in the order of the list, each one after the
\* one before it has exited with status 0; when a script fails no later
\* script is started and the pipeline exits with status 1; the success
\* message is written only when all four scripts have succeeded.
C29_PipelineOrder ==
    pc \in {"running", "exited"} =>
        /\ Len(started) <= Len(Scripts)
        /\ \A i \in 1..Len(started) : started[i] = Scripts[i].script
        /\ Len(statuses) = (IF pc = "running" THEN Len(started) - 1 ELSE Len(started))
        /\ \A i \in 1..Len(started) : \A j \in 1..(i - 1) : statuses[j] = 0
        /\ (\E i \in 1..Len(statuses) : statuses[i] # 0) =>
              /\ pc = "exited"
              /\ exitCode = << 1 >>
              /\ HasMessage("Pipeline failed")
        /\ HasMessage("Pipeline completed successfully") <=>
              /\ Len(statuses) = Len(Scripts)
              /\ \A i \in 1..Len(statuses) : statuses[i] = 0
        /\ HasMessage("Pipeline completed successfully") => exitCode = << 0 >>

\* C29: the third script has failed, the fourth has not been started
C29_Witness ==
    /\ pc = "exited"
    /\ started = << Scripts[1].script, Scripts[2].script, Scripts[3].script >>
    /\ statuses = << 0, 0, 1 >>
    /\ exitCode = << 1 >>
    /\ ~HasMessage("Pipeline completed successfully")

-----------------------------------------------------------------------------
(* C25, C26: the scripts in a row *)

\* no commentary file holds a text for the name
NoSourceText(devanagari) ==
    \A i \in 1..Len(commentariesByFile) :
        ~Truthy(FindNameCommentary(commentariesByFile[i].entries, devanagari))

\* C25: when the template generator, the extractor, the splitter and the
\* audit have run in that order, every name for which no commentary file
\* holds a text is listed in the report of the audit.
C25_MissingNamesReported ==
    pc = "audited" =>
        \A i \in 1..Len(nameList) :
            NoSourceText(nameList[i].devanagari) =>
                \E k \in 1..Len(report) :
                    /\ report[k].devanagari = nameList[i].devanagari
                    /\ report[k].nameNumber = nameList[i].number

\* C26: a run of the splitter on the files its first run has written leaves
\* meanings.json and commentaries.json as they are.
C26_SplitIdempotent ==
    [][/\ (pc = "split" /\ pc' = "writing again") =>
             /\ meaningsJson' = meaningsJson
             /\ commentariesJson' = commentariesJson
       /\ (pc = "writing again" /\ pc' = "split again") =>
             /\ meaningsJson' = meaningsJson
             /\ commentariesJson' = commentariesJson]_vars
====
